---- MODULE Spec2Model ----
(***************************************************************************)
(* A model of the gameboy-rs core: the CPU step with its interrupt         *)
(* servicing and HALT handling (cpu.rs), the MMU's interrupt bytes, stack  *)
(* memory and cycle accumulator (mmu.rs), the PPU's dot-clocked mode state *)
(* machine (video.rs) and the orchestrator step (gameboy.rs).              *)
(*                                                                         *)
(* Bytes and words are naturals kept inside their width.  The contents of  *)
(* the cartridge ROM are an input: every byte the CPU fetches from the     *)
(* program (opcode, immediate operand) is drawn from a small set.          *)
(***************************************************************************)
EXTENDS Integers, Sequences, FiniteSets, TLC

VARIABLES
    cpu,    \* CPU: pc, sp, a, interrupts_enabled, did_take_conditional_branch, halted
    mmu,    \* MMU: high_ram, interrupt_enable, interrupt_flags, consumed_read_write_cycles
    video,  \* Video: lcd_status (data, ppu_mode), lyc, current_line, dot_in_current_mode, is_frame_ready
    index,  \* Gameboy.index, the number of completed orchestrator steps
    call,   \* the running (or last returned) call: its position, locals and return value
    dots    \* number of Video.tick calls since power-on

vars == <<cpu, mmu, video, index, call, dots>>

(***************************************************************************)
(* Bounds of the model.                                                    *)
(***************************************************************************)
\* orchestrator steps explored by the CPU specification
MaxIndex == 5
\* Video.tick calls explored by the PPU specification (two frames and a bit)
MaxDots == 140600
\* orchestrator steps in which the orchestrator specification's program still runs
MaxProgram == 2
\* orchestrator steps explored by the orchestrator specification (a frame and a bit)
MaxSteps == 70300

(***************************************************************************)
(* utils.rs                                                                *)
(***************************************************************************)
Pow2(n) == 2 ^ n

RECURSIVE AndBits(_, _, _)
AndBits(x, y, n) ==
    IF n = 0 THEN 0
    ELSE (x % 2) * (y % 2) + 2 * AndBits(x \div 2, y \div 2, n - 1)

RECURSIVE OrBits(_, _, _)
OrBits(x, y, n) ==
    IF n = 0 THEN 0
    ELSE (IF (x % 2) + (y % 2) > 0 THEN 1 ELSE 0) + 2 * OrBits(x \div 2, y \div 2, n - 1)

RECURSIVE XorBits(_, _, _)
XorBits(x, y, n) ==
    IF n = 0 THEN 0
    ELSE (((x % 2) + (y % 2)) % 2) + 2 * XorBits(x \div 2, y \div 2, n - 1)

\* u8 operators: &, |, ^, ! and << (bits shifted out of the byte are dropped)
BitAnd(x, y) == AndBits(x, y, 8)
BitOr(x, y) == OrBits(x, y, 8)
BitXor(x, y) == XorBits(x, y, 8)
BitNot(x) == 255 - x
Shl(x, n) == (x * Pow2(n)) % 256

\* (value & (1 << bit)) != 0, for bit in 0..7: the bit of that weight is set
get_bit(value, bit) == (value \div Pow2(bit)) % 2 # 0

\* `*value &= !1 << bit`: unary ! binds tighter than <<, so the mask is
\* (!1) << bit = 0xFE << bit, as the source has it.
set_bit_mut(value, bit, bit_value) ==
    IF bit_value THEN BitOr(value, Shl(1, bit))
    ELSE BitAnd(value, Shl(BitNot(1), bit))

set_bit(value, bit, bit_value) ==
    IF bit_value THEN BitOr(value, Shl(1, bit))
    ELSE BitAnd(value, BitNot(Shl(1, bit)))

(***************************************************************************)
(* mmu.rs: interrupt sources                                               *)
(***************************************************************************)
VBlank == 0
Lcd == 1
Timer == 2
Serial == 3
Joypad == 4

\* the order of `interrupt_per_priority` in CPU::maybe_process_interrupts
InterruptSource == <<VBlank, Lcd, Timer, Serial, Joypad>>

interrupt_vector(interrupt) ==
    CASE interrupt = VBlank -> \h40
      [] interrupt = Lcd -> \h48
      [] interrupt = Timer -> \h50
      [] interrupt = Serial -> \h58
      [] interrupt = Joypad -> \h60

\* The part of high RAM (0xFF80..=0xFFFE) the stack can reach: SP starts at
\* 0xFFFE and a CPU step pushes at most two words.
StackTop == \hFFFE
StackFloor == StackTop - 4 * (MaxIndex + 1)
HighRam == StackFloor .. StackTop

(***************************************************************************)
(* mmu.rs: Timer                                                           *)
(***************************************************************************)
\* ClockSelect
Div1024 == 1024
Div16 == 16
Div64 == 64
Div256 == 256

Timer_new ==
    [divider |-> 0, timer_counter |-> 0, timer_modulo |-> 0, timer_control |-> 0,
     clock_counter |-> 0]

Timer_read(t, address) ==
    CASE address = \hFF04 -> t.divider \div 256
      [] address = \hFF05 -> t.timer_counter
      [] address = \hFF06 -> t.timer_modulo
      [] address = \hFF07 -> t.timer_control

\* a variant in which a write of DIV stores the byte in the counter's upper half
Timer_write_stores_div(t, address, value) ==
    CASE address = \hFF04 -> [t EXCEPT !.divider = value * 256]
      [] address = \hFF05 -> [t EXCEPT !.timer_counter = value]
      [] address = \hFF06 -> [t EXCEPT !.timer_modulo = value]
      [] address = \hFF07 -> [t EXCEPT !.timer_control = value]

Timer_write(t, address, value) ==
    CASE address = \hFF04 -> [t EXCEPT !.divider = 0]
      [] address = \hFF05 -> [t EXCEPT !.timer_counter = value]
      [] address = \hFF06 -> [t EXCEPT !.timer_modulo = value]
      [] address = \hFF07 -> [t EXCEPT !.timer_control = value]

get_clock_select(t) ==
    CASE t.timer_control % 4 = 0 -> Div1024
      [] t.timer_control % 4 = 1 -> Div16
      [] t.timer_control % 4 = 2 -> Div64
      [] t.timer_control % 4 = 3 -> Div256

is_timer_enabled(t) == get_bit(t.timer_control, 2)

\* the new Timer and the returned flag
increment_timer_counter(t) ==
    LET timer_counter == (t.timer_counter + 1) % 256
    IN  IF timer_counter = 0
        THEN [timer |-> [t EXCEPT !.timer_counter = t.timer_modulo], fire |-> TRUE]
        ELSE [timer |-> [t EXCEPT !.timer_counter = timer_counter], fire |-> FALSE]

tick_clock(t) ==
    LET clock_counter == t.clock_counter + 1
        clock_select_div == get_clock_select(t)
    IN  IF clock_counter < clock_select_div
        THEN [timer |-> [t EXCEPT !.clock_counter = clock_counter], fire |-> FALSE]
        ELSE increment_timer_counter(
                [t EXCEPT !.clock_counter = clock_counter - clock_select_div])

\* the body of the loop of maybe_tick_cycles, run `count` times; r is
\* [timer, fire] with fire the accumulated fire_interrupt
RECURSIVE tick_t_cycles(_, _)
tick_t_cycles(r, count) ==
    IF count = 0 THEN r
    ELSE LET t == [r.timer EXCEPT !.divider = (@ + 1) % 65536]
         IN  IF is_timer_enabled(t)
             THEN LET c == tick_clock(t)
                  IN  tick_t_cycles([timer |-> c.timer, fire |-> r.fire \/ c.fire], count - 1)
             ELSE tick_t_cycles([timer |-> t, fire |-> r.fire], count - 1)

\* elapsed_cycles * 4 is a u8 product: the callers pass less than 64
maybe_tick_cycles(t, elapsed_cycles) ==
    tick_t_cycles([timer |-> t, fire |-> FALSE], elapsed_cycles * 4)

(***************************************************************************)
(* mmu.rs: Joypad                                                          *)
(***************************************************************************)
JoypadButton == {"up", "down", "left", "right", "a", "b", "select", "start"}

Joypad_new ==
    [up |-> FALSE, down |-> FALSE, left |-> FALSE, right |-> FALSE, a |-> FALSE,
     b |-> FALSE, select |-> FALSE, start |-> FALSE,
     select_buttons |-> FALSE, direction_buttons |-> FALSE]

consume_platform_event(j, button, is_down) == [j EXCEPT ![button] = is_down]

\* the set_bit_mut calls run in the order of the source: bit 0 to bit 3 of
\* the directions, bit 0 to bit 3 of the buttons, then bit 4 and bit 5
Joypad_read(j) ==
    LET directions ==
            IF j.direction_buttons
            THEN set_bit_mut(set_bit_mut(set_bit_mut(set_bit_mut(\h0F,
                     0, ~j.right), 1, ~j.left), 2, ~j.up), 3, ~j.down)
            ELSE \h0F
        buttons ==
            IF j.select_buttons
            THEN set_bit_mut(set_bit_mut(set_bit_mut(set_bit_mut(directions,
                     0, ~j.a), 1, ~j.b), 2, ~j.select), 3, ~j.start)
            ELSE directions
    IN  set_bit_mut(set_bit_mut(buttons, 4, ~j.direction_buttons), 5, ~j.select_buttons)

Joypad_write(j, value) ==
    [j EXCEPT !.direction_buttons = ~get_bit(value, 4),
              !.select_buttons = ~get_bit(value, 5)]

(***************************************************************************)
(* mmu.rs: the bus and the cycle accumulator                               *)
(***************************************************************************)
BOOT_ROM ==
    <<
      \h31, \hFE, \hFF, \hAF, \h21, \hFF, \h9F, \h32, \hCB, \h7C, \h20, \hFB, \h21, \h26, \hFF, \h0E,
      \h11, \h3E, \h80, \h32, \hE2, \h0C, \h3E, \hF3, \hE2, \h32, \h3E, \h77, \h77, \h3E, \hFC, \hE0,
      \h47, \h11, \h04, \h01, \h21, \h10, \h80, \h1A, \hCD, \h95, \h00, \hCD, \h96, \h00, \h13, \h7B,
      \hFE, \h34, \h20, \hF3, \h11, \hD8, \h00, \h06, \h08, \h1A, \h13, \h22, \h23, \h05, \h20, \hF9,
      \h3E, \h19, \hEA, \h10, \h99, \h21, \h2F, \h99, \h0E, \h0C, \h3D, \h28, \h08, \h32, \h0D, \h20,
      \hF9, \h2E, \h0F, \h18, \hF3, \h67, \h3E, \h64, \h57, \hE0, \h42, \h3E, \h91, \hE0, \h40, \h04,
      \h1E, \h02, \h0E, \h0C, \hF0, \h44, \hFE, \h90, \h20, \hFA, \h0D, \h20, \hF7, \h1D, \h20, \hF2,
      \h0E, \h13, \h24, \h7C, \h1E, \h83, \hFE, \h62, \h28, \h06, \h1E, \hC1, \hFE, \h64, \h20, \h06,
      \h7B, \hE2, \h0C, \h3E, \h87, \hE2, \hF0, \h42, \h90, \hE0, \h42, \h15, \h20, \hD2, \h05, \h20,
      \h4F, \h16, \h20, \h18, \hCB, \h4F, \h06, \h04, \hC5, \hCB, \h11, \h17, \hC1, \hCB, \h11, \h17,
      \h05, \h20, \hF5, \h22, \h23, \h22, \h23, \hC9, \hCE, \hED, \h66, \h66, \hCC, \h0D, \h00, \h0B,
      \h03, \h73, \h00, \h83, \h00, \h0C, \h00, \h0D, \h00, \h08, \h11, \h1F, \h88, \h89, \h00, \h0E,
      \hDC, \hCC, \h6E, \hE6, \hDD, \hDD, \hD9, \h99, \hBB, \hBB, \h67, \h63, \h6E, \h0E, \hEC, \hCC,
      \hDD, \hDC, \h99, \h9F, \hBB, \hB9, \h33, \h3E, \h3C, \h42, \hB9, \hA5, \hB9, \hA5, \h42, \h3C,
      \h21, \h04, \h01, \h11, \hA8, \h00, \h1A, \h13, \hBE, \h00, \h00, \h23, \h7D, \hFE, \h34, \h20,
      \hF5, \h06, \h19, \h78, \h86, \h23, \h05, \h20, \hFB, \h86, \h00, \h00, \h3E, \h01, \hE0, \h50
    >>

\* RomOnly::read: the cartridge is an input; ROM image `rom` holds the byte
\* rom + address (mod 256) at each address
Cartridge_read(rom, address) == (rom + address) % 256

\* Video.oam, 0xFE00..=0xFE9F
OamSize == 160

\* a variant that leaves the Timer interrupt flag alone
maybe_tick_timers_silent(m, elapsed_cycles) ==
    [m EXCEPT !.timer = maybe_tick_cycles(m.timer, elapsed_cycles).timer]

\* maybe_tick_timers once maybe_tick_cycles has returned r = [timer, fire]
timers_ticked(m, r) ==
    IF r.fire
    THEN [m EXCEPT !.timer = r.timer, !.interrupt_flags = set_bit_mut(@, Timer, TRUE)]
    ELSE [m EXCEPT !.timer = r.timer]

maybe_tick_timers(m, elapsed_cycles) ==
    timers_ticked(m, maybe_tick_cycles(m.timer, elapsed_cycles))

\* a variant that bills the access without ticking the timer
consume_cycle_no_timer(m) ==
    [m EXCEPT !.consumed_read_write_cycles = @ + 1]

consume_cycle(m) ==
    maybe_tick_timers([m EXCEPT !.consumed_read_write_cycles = @ + 1], 1)

\* the address ranges the modelled programs touch; 0x0000..=0x7FFF is the
\* boot ROM or the cartridge
read_no_consume_cycles(m, address) ==
    IF address = \hFF0F THEN m.interrupt_flags
    ELSE IF address \in 0 .. \h7FFF
         THEN IF address <= \hFF /\ m.boot_rom_disabled = 0
              THEN BOOT_ROM[address + 1]
              ELSE Cartridge_read(m.cartridge, address)
    ELSE IF address \in \hFE00 .. \hFE9F THEN m.oam[address - \hFE00]
    ELSE IF address = \hFF00 THEN Joypad_read(m.joypad_input)
    ELSE IF address \in \hFF04 .. \hFF07 THEN Timer_read(m.timer, address)
    ELSE IF address = \hFF50 THEN m.boot_rom_disabled
    ELSE IF address \in HighRam THEN m.high_ram[address]
    ELSE IF address = \hFFFF THEN m.interrupt_enable
    ELSE 0

\* write_no_consume_cycles for every address but the DMA register
write_no_dma(m, address, value) ==
    IF address = \hFF0F THEN [m EXCEPT !.interrupt_flags = value]
    ELSE IF address \in \hFE00 .. \hFE9F THEN [m EXCEPT !.oam[address - \hFE00] = value]
    ELSE IF address = \hFF00 THEN [m EXCEPT !.joypad_input = Joypad_write(@, value)]
    ELSE IF address \in \hFF04 .. \hFF07
         THEN [m EXCEPT !.timer = Timer_write(@, address, value)]
    ELSE IF address = \hFF50 THEN [m EXCEPT !.boot_rom_disabled = value]
    ELSE IF address \in HighRam THEN [m EXCEPT !.high_ram[address] = value]
    ELSE IF address = \hFFFF THEN [m EXCEPT !.interrupt_enable = value]
    ELSE m

\* the byte iteration i of the loop of do_dma_transfer writes to OAM entry i:
\* the one read_no_consume_cycles returns at src_addr.  No earlier iteration
\* has changed it: they wrote OAM entries below i only, and the source address
\* of iteration i is an OAM entry only for dma_target = 0xFE, where it is
\* entry i itself.
dma_value(m, dma_target, i) == read_no_consume_cycles(m, dma_target * 256 + i)

\* a variant that stops one entry short
do_dma_transfer_short(m, dma_target) ==
    [m EXCEPT !.oam = [i \in 0 .. OamSize - 1 |->
                          IF i < OamSize - 1 THEN dma_value(m, dma_target, i) ELSE m.oam[i]]]

do_dma_transfer(m, dma_target) ==
    [m EXCEPT !.oam = [i \in 0 .. OamSize - 1 |-> dma_value(m, dma_target, i)]]

write_no_consume_cycles(m, address, value) ==
    IF address = \hFF46 THEN do_dma_transfer(m, value)
    ELSE write_no_dma(m, address, value)

\* MMU::read: the new MMU and the byte read
read_billed(billed, address) ==
    [mmu |-> billed, value |-> read_no_consume_cycles(billed, address)]

mmu_read(m, address) == read_billed(consume_cycle(m), address)

mmu_write(m, address, value) ==
    write_no_consume_cycles(consume_cycle(m), address, value)

\* low byte at the address, high byte at the next one
write_word(m, address, value) ==
    mmu_write(mmu_write(m, address, value % 256), address + 1, value \div 256)

\* MMU::read_word: the new MMU and the word read, low byte first
read_word(m, address) ==
    LET low == mmu_read(m, address)
        high == mmu_read(low.mmu, address + 1)
    IN  [mmu |-> high.mmu, value |-> high.value * 256 + low.value]

is_interrupt_enabled(m, interrupt) == get_bit(m.interrupt_enable, interrupt)

has_interrupt_flag(m, interrupt) == get_bit(m.interrupt_flags, interrupt)

set_interrupt_flag(m, interrupt, enabled) ==
    [m EXCEPT !.interrupt_flags = set_bit_mut(@, interrupt, enabled)]

take_consumed_cycles(m) ==
    [m EXCEPT !.consumed_read_write_cycles = 0]

(***************************************************************************)
(* instruction_decoder.rs and the cycle tables                             *)
(***************************************************************************)
\* the program bytes the CPU specification draws its opcodes from
Opcodes == {\h00, \h76, \hF3, \hFB, \hD9, \h3E, \hE0, \hC3}

decode(opcode) ==
    CASE opcode = \h00 -> "Noop"
      [] opcode = \h76 -> "Halt"
      [] opcode = \hF3 -> "DisableInterrupts"
      [] opcode = \hFB -> "EnableInterrupts"
      [] opcode = \hD9 -> "Reti"
      [] opcode = \h3E -> "LoadU8_A_ImmediateU8"
      [] opcode = \hE0 -> "LoadU8_ImmediateAddressU8_A"
      [] opcode = \hC3 -> "JumpImmediate"
      [] opcode = \hF0 -> "LoadU8_A_ImmediateAddressU8"
      [] opcode \in {\h01, \h11, \h21} -> "LoadU16_Register_ImmediateU16"
      [] opcode \in {\h18, \h20, \h28, \h30, \h38} -> "JumpRelative"
      [] opcode \in {\hC2, \hCA, \hD2, \hDA} -> "JumpImmediate"
      [] opcode \in {\hC4, \hCC, \hCD, \hD4, \hDC} -> "Call"
      [] opcode \in {\hC0, \hC8, \hC9, \hD0, \hD8} -> "Ret"
      [] opcode \in {\hC5, \hD5, \hE5, \hF5} -> "Push"
      [] opcode \in {\hC1, \hD1, \hE1, \hF1} -> "Pop"
      [] opcode = \hC6 -> "AddU8_ImmediateU8"
      [] opcode = \hD6 -> "Sub_ImmediateU8"
      [] opcode = \h27 -> "Daa"
      [] opcode \in {\h04, \h3C} -> "IncU8"
      [] opcode \in {\h05, \h3D} -> "DecU8"
      [] opcode = \hCE -> "Adc_ImmediateU8"
      [] opcode = \hDE -> "Sbc_ImmediateU8"
      [] opcode = \hE6 -> "And_ImmediateU8"
      [] opcode = \hEE -> "Xor_ImmediateU8"
      [] opcode = \hF6 -> "Or_ImmediateU8"
      [] opcode = \hFE -> "Compare_ImmediateU8"
      [] opcode = \hE8 -> "AddStackPointer"
      [] opcode = \hF8 -> "LoadHlWithOffsetSp"
      [] opcode \in {\hC7, \hCF, \hD7, \hDF, \hE7, \hEF, \hF7, \hFF} -> "Rst"

\* the address the decoder attaches to RST: 0x00, 0x08, ..., 0x38
rst_address(opcode) == opcode - \hC7

\* the register the decoder attaches to INC r and DEC r
inc_dec_target(opcode) == IF opcode \in {\h04, \h05} THEN "b" ELSE "a"

\* the FlagCondition the decoder attaches to a jump, call or return
flag_condition(opcode) ==
    CASE opcode \in {\h20, \hC0, \hC2, \hC4} -> "NZ"
      [] opcode \in {\h28, \hC8, \hCA, \hCC} -> "Z"
      [] opcode \in {\h30, \hD0, \hD2, \hD4} -> "NC"
      [] opcode \in {\h38, \hD8, \hDA, \hDC} -> "C"
      [] opcode \in {\h18, \hC3, \hC9, \hCD} -> "None"

\* the 16-bit register the decoder attaches to LD rr,d16, PUSH and POP
register_pair(opcode) ==
    CASE opcode \in {\h01, \hC1, \hC5} -> "BC"
      [] opcode \in {\h11, \hD1, \hD5} -> "DE"
      [] opcode \in {\h21, \hE1, \hE5} -> "HL"
      [] opcode \in {\hF1, \hF5} -> "AF"

\* decode_cb for SWAP, BIT n, RES n and SET n; the target is the operand column
\* (resolve_common_operand_from_col)
decode_cb(cb_opcode) ==
    LET col == cb_opcode % 8
        target == CASE col = 0 -> "b" [] col = 1 -> "c" [] col = 2 -> "d"
                    [] col = 3 -> "e" [] col = 4 -> "h" [] col = 5 -> "l"
                    [] col = 6 -> "AddressHL" [] col = 7 -> "a"
        n == (cb_opcode \div 8) % 8
    IN  CASE cb_opcode \in \h30 .. \h37 -> [instruction |-> "Swap", n |-> 0, target |-> target]
          [] cb_opcode \in \h40 .. \h7F -> [instruction |-> "Bit", n |-> n, target |-> target]
          [] cb_opcode \in \h80 .. \hBF -> [instruction |-> "Res", n |-> n, target |-> target]
          [] cb_opcode \in \hC0 .. \hFF -> [instruction |-> "Set", n |-> n, target |-> target]

\* cycles::NORMAL_OPCODE_CYCLES, the published machine-cycle cost of an opcode
\* whose branch (if any) is not taken
NORMAL_OPCODE_CYCLES(opcode) ==
    CASE opcode = \h00 -> 1
      [] opcode = \h76 -> 1
      [] opcode = \hF3 -> 1
      [] opcode = \hFB -> 1
      [] opcode = \hD9 -> 4
      [] opcode = \h3E -> 2
      [] opcode = \hE0 -> 3
      [] opcode = \hC3 -> 4
      [] opcode = \hF0 -> 3
      [] opcode \in {\h01, \h11, \h21} -> 3
      [] opcode = \h18 -> 3
      [] opcode \in {\h20, \h28, \h30, \h38} -> 2
      [] opcode \in {\hC2, \hCA, \hD2, \hDA} -> 3
      [] opcode = \hCD -> 6
      [] opcode \in {\hC4, \hCC, \hD4, \hDC} -> 3
      [] opcode = \hC9 -> 4
      [] opcode \in {\hC0, \hC8, \hD0, \hD8} -> 2
      [] opcode \in {\hC5, \hD5, \hE5, \hF5} -> 4
      [] opcode \in {\hC1, \hD1, \hE1, \hF1} -> 3
      [] opcode \in {\hC6, \hD6} -> 2
      [] opcode = \h27 -> 1
      [] opcode \in {\h04, \h05, \h3C, \h3D} -> 1
      [] opcode \in {\hCE, \hDE, \hE6, \hEE, \hF6, \hFE} -> 2
      [] opcode = \hE8 -> 4
      [] opcode = \hF8 -> 3
      [] opcode \in {\hC7, \hCF, \hD7, \hDF, \hE7, \hEF, \hF7, \hFF} -> 4

\* cycles::NORMAL_OPCODE_CYCLES_BRANCED, the published cost of an opcode whose
\* conditional branch is taken; the other opcodes cost what they cost above
NORMAL_OPCODE_CYCLES_BRANCED(opcode) ==
    CASE opcode \in {\h20, \h28, \h30, \h38} -> 3
      [] opcode \in {\hC2, \hCA, \hD2, \hDA} -> 4
      [] opcode \in {\hC4, \hCC, \hD4, \hDC} -> 6
      [] opcode \in {\hC0, \hC8, \hD0, \hD8} -> 5
      [] OTHER -> NORMAL_OPCODE_CYCLES(opcode)

\* cycles::CB_OPCODE_CYCLES for SWAP, BIT, RES and SET: 2 on a register, 4 on
\* (HL), 3 for BIT on (HL)
CB_OPCODE_CYCLES(cb_opcode) ==
    IF cb_opcode % 8 # 6 THEN 2
    ELSE IF cb_opcode \in \h40 .. \h7F THEN 3 ELSE 4

\* the operand bytes that follow an opcode in the program
ImmediateU8 == {\h00, \h01, \h02, \h03, \h20}
ImmediateAddressU8 == {\h0F, \hFF}
ImmediateU16 == {\h0150}

Operands(opcode) ==
    CASE opcode = \h3E -> ImmediateU8
      [] opcode = \hE0 -> ImmediateAddressU8
      [] opcode = \hC3 -> ImmediateU16
      [] OTHER -> {0}

(***************************************************************************)
(* cpu.rs.  A CPU state st is [cpu |-> ..., mmu |-> ...]: the CPU owns     *)
(* the MMU.                                                                *)
(***************************************************************************)
\* read_u8 / next_pc: one bus read at PC, PC advances; the byte is the input
read_u8(st) ==
    [cpu |-> [st.cpu EXCEPT !.pc = @ + 1], mmu |-> consume_cycle(st.mmu)]

read_u16(st) == read_u8(read_u8(st))

stack_push(st, value) ==
    LET sp == st.cpu.sp - 2
    IN  [cpu |-> [st.cpu EXCEPT !.sp = sp], mmu |-> write_word(st.mmu, sp, value)]

\* stack_pop, with the popped word stored into PC by its caller CPU::ret
ret(st) ==
    LET word == read_word(st.mmu, st.cpu.sp)
    IN  [cpu |-> [st.cpu EXCEPT !.pc = word.value, !.sp = (@ + 2) % 65536],
         mmu |-> word.mmu]

\* mutant: the IE byte is not consulted
should_fire_interrupt_ignores_ie(st, interrupt) ==
    has_interrupt_flag(st.mmu, interrupt)

should_fire_interrupt(st, interrupt) ==
    is_interrupt_enabled(st.mmu, interrupt) /\ has_interrupt_flag(st.mmu, interrupt)

\* mutant: PC is set to the vector before it is pushed
handle_interrupt_jumps_first(st, interrupt) ==
    LET cleared == [cpu |-> [st.cpu EXCEPT !.interrupts_enabled = FALSE],
                    mmu |-> set_interrupt_flag(st.mmu, interrupt, FALSE)]
        pushed == stack_push(cleared, interrupt_vector(interrupt))
    IN  [cpu |-> [pushed.cpu EXCEPT !.pc = interrupt_vector(interrupt)],
         mmu |-> pushed.mmu,
         cycles |-> 5]

\* mutant: IME is left as it was
handle_interrupt_keeps_ime(st, interrupt) ==
    LET cleared == [cpu |-> st.cpu,
                    mmu |-> set_interrupt_flag(st.mmu, interrupt, FALSE)]
        pushed == stack_push(cleared, st.cpu.pc)
    IN  [cpu |-> [pushed.cpu EXCEPT !.pc = interrupt_vector(interrupt)],
         mmu |-> pushed.mmu,
         cycles |-> 5]

handle_interrupt(st, interrupt) ==
    LET cleared == [cpu |-> [st.cpu EXCEPT !.interrupts_enabled = FALSE],
                    mmu |-> set_interrupt_flag(st.mmu, interrupt, FALSE)]
        pushed == stack_push(cleared, st.cpu.pc)
    IN  [cpu |-> [pushed.cpu EXCEPT !.pc = interrupt_vector(interrupt)],
         mmu |-> pushed.mmu,
         cycles |-> 5]

\* mutant: a pending interrupt ends HALT only when IME is set
RECURSIVE process_interrupts_wakes_with_ime(_, _)
process_interrupts_wakes_with_ime(st, i) ==
    IF i > Len(InterruptSource) THEN [cpu |-> st.cpu, mmu |-> st.mmu, cycles |-> 0]
    ELSE IF ~should_fire_interrupt(st, InterruptSource[i])
         THEN process_interrupts_wakes_with_ime(st, i + 1)
    ELSE IF st.cpu.interrupts_enabled
         THEN handle_interrupt([st EXCEPT !.cpu.halted = FALSE], InterruptSource[i])
         ELSE process_interrupts_wakes_with_ime(st, i + 1)

\* mutant: an interrupt is serviced without ending HALT
RECURSIVE process_interrupts_stays_halted(_, _)
process_interrupts_stays_halted(st, i) ==
    IF i > Len(InterruptSource) THEN [cpu |-> st.cpu, mmu |-> st.mmu, cycles |-> 0]
    ELSE IF ~should_fire_interrupt(st, InterruptSource[i])
         THEN process_interrupts_stays_halted(st, i + 1)
    ELSE IF st.cpu.interrupts_enabled
         THEN handle_interrupt(st, InterruptSource[i])
         ELSE process_interrupts_stays_halted([st EXCEPT !.cpu.halted = FALSE], i + 1)

\* the loop of maybe_process_interrupts from position i of interrupt_per_priority
RECURSIVE process_interrupts_from(_, _)
process_interrupts_from(st, i) ==
    IF i > Len(InterruptSource) THEN [cpu |-> st.cpu, mmu |-> st.mmu, cycles |-> 0]
    ELSE IF ~should_fire_interrupt(st, InterruptSource[i])
         THEN process_interrupts_from(st, i + 1)
    ELSE LET woken == [st EXCEPT !.cpu.halted = FALSE]
         IN  IF woken.cpu.interrupts_enabled
             THEN handle_interrupt(woken, InterruptSource[i])
             ELSE process_interrupts_from(woken, i + 1)

\* mutant: the loop starts at the second source
maybe_process_interrupts_skips_first(st) == process_interrupts_from(st, 2)

maybe_process_interrupts(st) == process_interrupts_from(st, 1)

\* mutant: the low byte of AF reads as stored
RegisterPair_get_unmasked(c, reg) ==
    CASE reg = "AF" -> c.a * 256 + c.flag_register
      [] reg = "BC" -> c.b * 256 + c.c
      [] reg = "DE" -> c.d * 256 + c.e
      [] reg = "HL" -> c.h * 256 + c.l

\* RegisterPair::get / ImmutableRegisterPair::get over resolve_u16_reg: the
\* low byte of AF reads with its low nibble masked off
RegisterPair_get(c, reg) ==
    CASE reg = "AF" -> c.a * 256 + BitAnd(c.flag_register, \hF0)
      [] reg = "BC" -> c.b * 256 + c.c
      [] reg = "DE" -> c.d * 256 + c.e
      [] reg = "HL" -> c.h * 256 + c.l

\* RegisterPair::set: both bytes are stored as given
RegisterPair_set(c, reg, value) ==
    LET high == (value \div 256) % 256
        low == value % 256
    IN  CASE reg = "AF" -> [c EXCEPT !.a = high, !.flag_register = low]
          [] reg = "BC" -> [c EXCEPT !.b = high, !.c = low]
          [] reg = "DE" -> [c EXCEPT !.d = high, !.e = low]
          [] reg = "HL" -> [c EXCEPT !.h = high, !.l = low]

\* apply_flag_change over FlagRegister::set_z/n/h/c (bits 7, 6, 5, 4 of F); an
\* Option is the set of its values: {} is None, {x} is Some(x)
apply_flag_change(c, flag_change) ==
    LET put(f, option, bit) == IF option = {} THEN f ELSE set_bit(f, bit, TRUE \in option)
    IN  [c EXCEPT !.flag_register =
            put(put(put(put(@, flag_change.z, 7), flag_change.n, 6), flag_change.h, 5),
                flag_change.c, 4)]

\* mutant: an unconditional jump, call or return counts as a taken branch
is_flag_condition_true_counts_none(c, condition) ==
    LET z == get_bit(c.flag_register, 7)
        carry == get_bit(c.flag_register, 4)
        is_condition_true ==
            CASE condition = "None" -> TRUE
              [] condition = "Z" -> z
              [] condition = "NZ" -> ~z
              [] condition = "C" -> carry
              [] condition = "NC" -> ~carry
    IN  [cpu |-> [c EXCEPT !.did_take_conditional_branch = is_condition_true],
         value |-> is_condition_true]

\* is_flag_condition_true: no condition is true and leaves the took-branch flag
is_flag_condition_true(c, condition) ==
    IF condition = "None"
    THEN [cpu |-> c, value |-> TRUE]
    ELSE LET z == get_bit(c.flag_register, 7)
             carry == get_bit(c.flag_register, 4)
             is_condition_true ==
                 CASE condition = "Z" -> z
                   [] condition = "NZ" -> ~z
                   [] condition = "C" -> carry
                   [] condition = "NC" -> ~carry
         IN  [cpu |-> [c EXCEPT !.did_take_conditional_branch = is_condition_true],
              value |-> is_condition_true]

\* add_u8 with LogicalOpTarget::ImmediateU8: value is the byte read_u8 returns
add_u8(st, value) ==
    LET fetched == read_u8(st)
        half_carry == (st.cpu.a % 16) + (value % 16) > \hF
        result == st.cpu.a + value
        a == result % 256
    IN  [fetched EXCEPT !.cpu =
            apply_flag_change([fetched.cpu EXCEPT !.a = a],
                [z |-> {a = 0}, n |-> {FALSE}, h |-> {half_carry}, c |-> {result > \hFF}])]

\* sub with LogicalOpTarget::ImmediateU8
sub(st, value) ==
    LET fetched == read_u8(st)
        half_carry == (st.cpu.a % 16) < (value % 16)
        carry == st.cpu.a < value
        a == (st.cpu.a - value) % 256
    IN  [fetched EXCEPT !.cpu =
            apply_flag_change([fetched.cpu EXCEPT !.a = a],
                [z |-> {a = 0}, n |-> {TRUE}, h |-> {half_carry}, c |-> {carry}])]

\* inc_u8 with IncDecU8Target::RegisterU8
inc_u8(st, target) ==
    LET result == (st.cpu[target] + 1) % 256
    IN  [st EXCEPT !.cpu =
            apply_flag_change([st.cpu EXCEPT ![target] = result],
                [z |-> {result = 0}, n |-> {FALSE}, h |-> {result % 16 = \h00}, c |-> {}])]

\* dec_u8 with IncDecU8Target::RegisterU8
dec_u8(st, target) ==
    LET result == (st.cpu[target] - 1) % 256
    IN  [st EXCEPT !.cpu =
            apply_flag_change([st.cpu EXCEPT ![target] = result],
                [z |-> {result = 0}, n |-> {TRUE}, h |-> {result % 16 = \h0F}, c |-> {}])]

\* or with LogicalOpTarget::ImmediateU8
or(st, value) ==
    LET fetched == read_u8(st)
        a == BitOr(st.cpu.a, value)
    IN  [fetched EXCEPT !.cpu =
            apply_flag_change([fetched.cpu EXCEPT !.a = a],
                [z |-> {a = 0}, n |-> {FALSE}, h |-> {FALSE}, c |-> {FALSE}])]

\* and with LogicalOpTarget::ImmediateU8
and(st, value) ==
    LET fetched == read_u8(st)
        a == BitAnd(st.cpu.a, value)
    IN  [fetched EXCEPT !.cpu =
            apply_flag_change([fetched.cpu EXCEPT !.a = a],
                [z |-> {a = 0}, n |-> {FALSE}, h |-> {TRUE}, c |-> {FALSE}])]

\* xor with LogicalOpTarget::ImmediateU8
xor(st, value) ==
    LET fetched == read_u8(st)
        a == BitXor(st.cpu.a, value)
    IN  [fetched EXCEPT !.cpu =
            apply_flag_change([fetched.cpu EXCEPT !.a = a],
                [z |-> {a = 0}, n |-> {FALSE}, h |-> {FALSE}, c |-> {FALSE}])]

\* a variant that leaves the carry flag out of the half carry
adc_half_carry_without_carry(st, value) ==
    LET fetched == read_u8(st)
        carry_value == IF get_bit(st.cpu.flag_register, 4) THEN 1 ELSE 0
        half_carry == (st.cpu.a % 16) + (value % 16) > \hF
        result == st.cpu.a + value + carry_value
        a == result % 256
    IN  [fetched EXCEPT !.cpu =
            apply_flag_change([fetched.cpu EXCEPT !.a = a],
                [z |-> {a = 0}, n |-> {FALSE}, h |-> {half_carry}, c |-> {result > \hFF}])]

\* adc with LogicalOpTarget::ImmediateU8
adc(st, value) ==
    LET fetched == read_u8(st)
        carry_value == IF get_bit(st.cpu.flag_register, 4) THEN 1 ELSE 0
        half_carry == (st.cpu.a % 16) + (value % 16) + carry_value > \hF
        result == st.cpu.a + value + carry_value
        a == result % 256
    IN  [fetched EXCEPT !.cpu =
            apply_flag_change([fetched.cpu EXCEPT !.a = a],
                [z |-> {a = 0}, n |-> {FALSE}, h |-> {half_carry}, c |-> {result > \hFF}])]

\* sbc with LogicalOpTarget::ImmediateU8
sbc(st, value) ==
    LET fetched == read_u8(st)
        carry_value == IF get_bit(st.cpu.flag_register, 4) THEN 1 ELSE 0
        new_carry == st.cpu.a < value + carry_value
        half_carry == (st.cpu.a % 16) < (value % 16) + carry_value
        a == (st.cpu.a - value - carry_value) % 256
    IN  [fetched EXCEPT !.cpu =
            apply_flag_change([fetched.cpu EXCEPT !.a = a],
                [z |-> {a = 0}, n |-> {TRUE}, h |-> {half_carry}, c |-> {new_carry}])]

\* compare with LogicalOpTarget::ImmediateU8
compare(st, value) ==
    LET fetched == read_u8(st)
        result == (st.cpu.a - value) % 256
    IN  [fetched EXCEPT !.cpu =
            apply_flag_change(fetched.cpu,
                [z |-> {result = 0}, n |-> {TRUE}, h |-> {(st.cpu.a % 16) < (value % 16)},
                 c |-> {st.cpu.a < value}])]

\* a variant that takes the carry from bit 15 of the sum
offset_sp_carry_from_word(sp, value) ==
    LET offset == IF value >= 128 THEN value + \hFF00 ELSE value
        result == (sp + offset) % 65536
        bits == XorBits(XorBits(sp, offset, 16), result, 16)
    IN  [result |-> result,
         flag_change |-> [z |-> {FALSE}, n |-> {FALSE},
                          h |-> {AndBits(bits, \h10, 16) = \h10},
                          c |-> {sp + offset > \hFFFF}]]

\* the flags of add_stackpointer_immediate and of the LoadHlWithOffsetSp arm:
\* signed_sp, offset and result are i16, here as their 16-bit patterns, and
\* `result & signed_mask` is result (the mask is -1)
offset_sp(sp, value) ==
    LET offset == IF value >= 128 THEN value + \hFF00 ELSE value
        result == (sp + offset) % 65536
        bits == XorBits(XorBits(sp, offset, 16), result, 16)
    IN  [result |-> result,
         flag_change |-> [z |-> {FALSE}, n |-> {FALSE},
                          h |-> {AndBits(bits, \h10, 16) = \h10},
                          c |-> {AndBits(bits, \h100, 16) = \h100}]]

\* add_stackpointer_immediate: value is the byte read_u8 returns
add_stackpointer_immediate(st, value) ==
    LET fetched == read_u8(st)
        r == offset_sp(st.cpu.sp, value)
    IN  [fetched EXCEPT !.cpu = apply_flag_change([fetched.cpu EXCEPT !.sp = r.result],
                                                  r.flag_change)]

\* the LoadHlWithOffsetSp arm of CPU::tick
load_hl_with_offset_sp(st, value) ==
    LET fetched == read_u8(st)
        r == offset_sp(st.cpu.sp, value)
    IN  [fetched EXCEPT !.cpu = apply_flag_change(RegisterPair_set(fetched.cpu, "HL", r.result),
                                                  r.flag_change)]

\* a variant that pushes the address of the RST opcode itself
rst_pushes_own_address(st, addr) ==
    [stack_push(st, st.cpu.pc - 1) EXCEPT !.cpu.pc = addr]

rst(st, addr) ==
    [stack_push(st, st.cpu.pc) EXCEPT !.cpu.pc = addr]

\* mutant: the half-carry flag is not consulted
daa_ignores_half_carry(st) ==
    LET n == get_bit(st.cpu.flag_register, 6)
        c == get_bit(st.cpu.flag_register, 4)
        high == c \/ st.cpu.a > \h99
        a1 == IF high THEN (st.cpu.a + \h60) % 256 ELSE st.cpu.a
        a2 == IF a1 % 16 > \h09 THEN (a1 + \h06) % 256 ELSE a1
        a == IF ~n THEN a2
             ELSE IF c THEN (st.cpu.a + \hA0) % 256
             ELSE st.cpu.a
        carry == IF ~n THEN high ELSE c
    IN  [st EXCEPT !.cpu =
            apply_flag_change([st.cpu EXCEPT !.a = a],
                [z |-> {a = 0}, n |-> {}, h |-> {FALSE}, c |-> {carry}])]

daa(st) ==
    LET n == get_bit(st.cpu.flag_register, 6)
        h == get_bit(st.cpu.flag_register, 5)
        c == get_bit(st.cpu.flag_register, 4)
        high == c \/ st.cpu.a > \h99
        a1 == IF high THEN (st.cpu.a + \h60) % 256 ELSE st.cpu.a
        a2 == IF h \/ a1 % 16 > \h09 THEN (a1 + \h06) % 256 ELSE a1
        a == IF ~n THEN a2
             ELSE IF c THEN (st.cpu.a + (IF h THEN \h9A ELSE \hA0)) % 256
             ELSE IF h THEN (st.cpu.a + \hFA) % 256
             ELSE st.cpu.a
        carry == IF ~n THEN high ELSE c
    IN  [st EXCEPT !.cpu =
            apply_flag_change([st.cpu EXCEPT !.a = a],
                [z |-> {a = 0}, n |-> {}, h |-> {FALSE}, c |-> {carry}])]

\* mutant: the high nibble is lost
swap_nibbles_low_only(value) == Shl(BitAnd(value, \h0F), 4)

swap_nibbles(value) == BitOr(Shl(BitAnd(value, \h0F), 4), BitAnd(value, \hF0) \div 16)

\* apply_cb_target: the closure applier is a function from the operand byte to
\* [result, flag_change]
apply_cb_target(st, target, applier) ==
    LET hl == RegisterPair_get(st.cpu, "HL")
        r == IF target = "AddressHL"
             THEN mmu_read(st.mmu, hl)
             ELSE [mmu |-> st.mmu, value |-> st.cpu[target]]
        applied == applier[r.value]
        flagged == apply_flag_change(st.cpu, applied.flag_change)
    IN  IF applied.result = {}
        THEN [cpu |-> flagged, mmu |-> r.mmu]
        ELSE LET result == CHOOSE x \in applied.result : TRUE
             IN  IF target = "AddressHL"
                 THEN [cpu |-> flagged, mmu |-> mmu_write(r.mmu, hl, result)]
                 ELSE [cpu |-> [flagged EXCEPT ![target] = result], mmu |-> r.mmu]

\* mutant: RES clears the bit below the one it names
res_bit_below(st, n, target) ==
    LET applier == [value \in 0 .. 255 |->
            [result |-> {set_bit(value, (n + 7) % 8, FALSE)},
             flag_change |-> [z |-> {}, n |-> {}, h |-> {}, c |-> {}]]]
    IN  apply_cb_target(st, target, applier)

res(st, n, target) ==
    LET applier == [value \in 0 .. 255 |->
            [result |-> {set_bit(value, n, FALSE)},
             flag_change |-> [z |-> {}, n |-> {}, h |-> {}, c |-> {}]]]
    IN  apply_cb_target(st, target, applier)

set(st, n, target) ==
    LET applier == [value \in 0 .. 255 |->
            [result |-> {set_bit(value, n, TRUE)},
             flag_change |-> [z |-> {}, n |-> {}, h |-> {}, c |-> {}]]]
    IN  apply_cb_target(st, target, applier)

swap(st, target) ==
    LET applier == [value \in 0 .. 255 |->
            [result |-> {swap_nibbles(value)},
             flag_change |-> [z |-> {swap_nibbles(value) = 0}, n |-> {FALSE},
                              h |-> {FALSE}, c |-> {FALSE}]]]
    IN  apply_cb_target(st, target, applier)

bit(st, n, target) ==
    LET applier == [value \in 0 .. 255 |->
            [result |-> {},
             flag_change |-> [z |-> {~get_bit(value, n)}, n |-> {FALSE}, h |-> {TRUE},
                              c |-> {}]]]
    IN  apply_cb_target(st, target, applier)

\* next_instruction for the 0xCB prefix, then the match arm of the decoded
\* CB instruction; cb_opcode is the byte the second read_u8 returns
execute_cb(st, cb_opcode) ==
    LET cb == decode_cb(cb_opcode)
    IN  CASE cb.instruction = "Swap" -> swap(read_u8(st), cb.target)
          [] cb.instruction = "Bit" -> bit(read_u8(st), cb.n, cb.target)
          [] cb.instruction = "Res" -> res(read_u8(st), cb.n, cb.target)
          [] cb.instruction = "Set" -> set(read_u8(st), cb.n, cb.target)

\* the match on the decoded instruction in CPU::tick, after the opcode fetch
execute(st, opcode, operand) ==
    LET instruction == decode(opcode)
    IN  CASE instruction = "Noop" -> st
          [] instruction = "Halt" -> [st EXCEPT !.cpu.halted = TRUE]
          [] instruction = "DisableInterrupts" -> [st EXCEPT !.cpu.interrupts_enabled = FALSE]
          [] instruction = "EnableInterrupts" -> [st EXCEPT !.cpu.interrupts_enabled = TRUE]
          [] instruction = "Reti" -> [ret(st) EXCEPT !.cpu.interrupts_enabled = TRUE]
          [] instruction = "LoadU8_A_ImmediateU8" ->
                [read_u8(st) EXCEPT !.cpu.a = operand]
          [] instruction = "LoadU8_ImmediateAddressU8_A" ->
                LET fetched == read_u8(st)
                IN  [fetched EXCEPT !.mmu = mmu_write(@, \hFF00 + operand, st.cpu.a)]
          [] instruction = "LoadU8_A_ImmediateAddressU8" ->
                LET fetched == read_u8(st)
                    r == mmu_read(fetched.mmu, \hFF00 + operand)
                IN  [cpu |-> [fetched.cpu EXCEPT !.a = r.value], mmu |-> r.mmu]
          [] instruction = "JumpImmediate" ->
                LET fetched == read_u16(st)
                    taken == is_flag_condition_true(fetched.cpu, flag_condition(opcode))
                IN  IF taken.value
                    THEN [cpu |-> [taken.cpu EXCEPT
                                      !.pc = (operand \div 256) * 256 + (operand % 256)],
                          mmu |-> fetched.mmu]
                    ELSE [cpu |-> taken.cpu, mmu |-> fetched.mmu]
          [] instruction = "JumpRelative" ->
                \* the i16 sum of relative_jump stays in range while PC is below 0x7F80
                LET fetched == read_u8(st)
                    offset == IF operand >= 128 THEN operand - 256 ELSE operand
                    new_pc == (fetched.cpu.pc + offset) % 65536
                    taken == is_flag_condition_true(fetched.cpu, flag_condition(opcode))
                IN  IF taken.value
                    THEN [cpu |-> [taken.cpu EXCEPT !.pc = new_pc], mmu |-> fetched.mmu]
                    ELSE [cpu |-> taken.cpu, mmu |-> fetched.mmu]
          [] instruction = "Call" ->
                LET fetched == read_u16(st)
                    taken == is_flag_condition_true(fetched.cpu, flag_condition(opcode))
                IN  IF taken.value
                    THEN [stack_push([cpu |-> taken.cpu, mmu |-> fetched.mmu], fetched.cpu.pc)
                            EXCEPT !.cpu.pc = operand]
                    ELSE [cpu |-> taken.cpu, mmu |-> fetched.mmu]
          [] instruction = "Ret" ->
                LET taken == is_flag_condition_true(st.cpu, flag_condition(opcode))
                IN  IF taken.value
                    THEN ret([cpu |-> taken.cpu, mmu |-> st.mmu])
                    ELSE [cpu |-> taken.cpu, mmu |-> st.mmu]
          [] instruction = "Push" ->
                stack_push(st, RegisterPair_get(st.cpu, register_pair(opcode)))
          [] instruction = "Pop" ->
                LET word == read_word(st.mmu, st.cpu.sp)
                IN  [cpu |-> RegisterPair_set([st.cpu EXCEPT !.sp = (@ + 2) % 65536],
                                              register_pair(opcode), word.value),
                     mmu |-> word.mmu]
          [] instruction = "LoadU16_Register_ImmediateU16" ->
                [read_u16(st) EXCEPT !.cpu = RegisterPair_set(@, register_pair(opcode), operand)]
          [] instruction = "AddU8_ImmediateU8" -> add_u8(st, operand)
          [] instruction = "Sub_ImmediateU8" -> sub(st, operand)
          [] instruction = "Daa" -> daa(st)
          [] instruction = "IncU8" -> inc_u8(st, inc_dec_target(opcode))
          [] instruction = "DecU8" -> dec_u8(st, inc_dec_target(opcode))
          [] instruction = "Adc_ImmediateU8" -> adc(st, operand)
          [] instruction = "Sbc_ImmediateU8" -> sbc(st, operand)
          [] instruction = "And_ImmediateU8" -> and(st, operand)
          [] instruction = "Xor_ImmediateU8" -> xor(st, operand)
          [] instruction = "Or_ImmediateU8" -> or(st, operand)
          [] instruction = "Compare_ImmediateU8" -> compare(st, operand)
          [] instruction = "AddStackPointer" -> add_stackpointer_immediate(st, operand)
          [] instruction = "LoadHlWithOffsetSp" -> load_hl_with_offset_sp(st, operand)
          [] instruction = "Rst" -> rst(st, rst_address(opcode))

\* the end of CPU::tick: the cost of the instruction that left the CPU in done
tick_done(r, done, opcode_type, opcode) ==
    LET elapsed_cycles ==
            CASE ~done.cpu.did_take_conditional_branch /\ opcode_type = "Normal" ->
                    NORMAL_OPCODE_CYCLES(opcode)
              [] ~done.cpu.did_take_conditional_branch /\ opcode_type = "Cb" ->
                    CB_OPCODE_CYCLES(opcode)
              [] done.cpu.did_take_conditional_branch /\ opcode_type = "Normal" ->
                    NORMAL_OPCODE_CYCLES_BRANCED(opcode)
    IN  [cpu |-> done.cpu, mmu |-> done.mmu, pc |-> r.cpu.pc, opcode |-> opcode,
         interrupt_cycles |-> r.cycles, elapsed_cycles |-> elapsed_cycles,
         cycles |-> elapsed_cycles + r.cycles]

\* CPU::tick from line 262 on: r is what maybe_process_interrupts returned; a
\* CB-prefixed instruction is opcode 0xCB with the second byte as its operand
tick_after_interrupts(r, opcode, operand) ==
    LET st == [cpu |-> r.cpu, mmu |-> r.mmu]
    IN  IF st.cpu.halted
        THEN [cpu |-> st.cpu, mmu |-> st.mmu, pc |-> st.cpu.pc, opcode |-> -1,
              interrupt_cycles |-> r.cycles, elapsed_cycles |-> 0, cycles |-> 1]
        ELSE LET cleared == [st EXCEPT !.cpu.did_take_conditional_branch = FALSE]
             IN  IF opcode = \hCB
                 THEN tick_done(r, execute_cb(read_u8(cleared), operand), "Cb", operand)
                 ELSE tick_done(r, execute(read_u8(cleared), opcode, operand), "Normal", opcode)

CPU_new ==
    [pc |-> 0, sp |-> StackTop, a |-> 0, b |-> 0, c |-> 0, d |-> 0, e |-> 0, h |-> 0,
     l |-> 0, flag_register |-> 0, interrupts_enabled |-> FALSE,
     did_take_conditional_branch |-> FALSE, halted |-> FALSE]

\* IO::new: boot_rom_disabled, timer and joypad_input; cartridge is the ROM image
MMU_new ==
    [cartridge |-> 0, high_ram |-> [address \in HighRam |-> 0], interrupt_enable |-> 0,
     interrupt_flags |-> 0, consumed_read_write_cycles |-> 0,
     oam |-> [i \in 0 .. OamSize - 1 |-> 0],
     timer |-> Timer_new, boot_rom_disabled |-> 0, joypad_input |-> Joypad_new]

(***************************************************************************)
(* video.rs: the PPU mode state machine                                    *)
(***************************************************************************)
DOTS_PER_MODE2 == 80
\* a variant that leaves DrawPixels one dot early
DOTS_PER_MODE3_short == 172 - 1
DOTS_PER_MODE3 == 172
DOTS_PER_MODE0 == 204
DOTS_PER_MODE1_ROW == 456

\* LcdStatusBit
LyCompare == 2
Mode0IntSelect == 3
Mode1IntSelect == 4
Mode2IntSelect == 5
LycIntSelect == 6

Video_new ==
    [data |-> 0, ppu_mode |-> "Mode2OamScan", lyc |-> 0, current_line |-> 0,
     dot_in_current_mode |-> 0, is_frame_ready |-> TRUE, lcd_control |-> 0]

\* a variant that starts VBlank one line late
starts_vblank_late(line) == line > 144

\* `self.current_line > 143`: the line after the last visible one starts VBlank
starts_vblank(line) == line > 143

\* a variant that ends the frame one line early
ends_frame_early(line) == line > 152

\* `self.current_line > 153`: the line after the last VBlank line ends the frame
ends_frame(line) == line > 153

\* the match on the current mode in Video::tick: the state after the arm that
\* applies, the mode to enter (or "None") and the interrupts pushed so far
tick_mode(v) ==
    CASE v.ppu_mode = "Mode2OamScan" /\ v.dot_in_current_mode >= DOTS_PER_MODE2 ->
            [video |-> [v EXCEPT !.dot_in_current_mode = 0],
             next_mode |-> "Mode3DrawPixels", interrupts |-> <<>>]
      [] v.ppu_mode = "Mode3DrawPixels" /\ v.dot_in_current_mode >= DOTS_PER_MODE3 ->
            [video |-> [v EXCEPT !.dot_in_current_mode = 0],
             next_mode |-> "Mode0HorizontalBlank", interrupts |-> <<>>]
      [] v.ppu_mode = "Mode0HorizontalBlank" /\ v.dot_in_current_mode >= DOTS_PER_MODE0 ->
            LET line == v.current_line + 1
            IN  [video |-> [v EXCEPT !.dot_in_current_mode = 0, !.current_line = line],
                 next_mode |-> IF starts_vblank(line) THEN "Mode1VerticalBlank" ELSE "Mode2OamScan",
                 interrupts |-> IF line = v.lyc /\ get_bit(v.data, LycIntSelect)
                                THEN <<"Stat">> ELSE <<>>]
      [] v.ppu_mode = "Mode1VerticalBlank" /\ v.dot_in_current_mode >= DOTS_PER_MODE1_ROW ->
            LET line == v.current_line + 1
            IN  IF ends_frame(line)
                THEN [video |-> [v EXCEPT !.dot_in_current_mode = 0, !.current_line = 0,
                                          !.is_frame_ready = TRUE],
                      next_mode |-> "Mode2OamScan", interrupts |-> <<>>]
                ELSE [video |-> [v EXCEPT !.dot_in_current_mode = 0, !.current_line = line],
                      next_mode |-> "None", interrupts |-> <<>>]
      [] OTHER -> [video |-> v, next_mode |-> "None", interrupts |-> <<>>]

\* a variant in which entering HBlank consults the OamScan select bit
mode_interrupts_wrong_select(v, next_mode) ==
    CASE next_mode = "Mode2OamScan" ->
            IF get_bit(v.data, Mode2IntSelect) THEN <<"Stat">> ELSE <<>>
      [] next_mode = "Mode3DrawPixels" -> <<>>
      [] next_mode = "Mode0HorizontalBlank" ->
            IF get_bit(v.data, Mode2IntSelect) THEN <<"Stat">> ELSE <<>>
      [] next_mode = "Mode1VerticalBlank" ->
            <<"VBlank">> \o (IF get_bit(v.data, Mode1IntSelect) THEN <<"Stat">> ELSE <<>>)

\* the interrupts pushed on entering next_mode
mode_interrupts(v, next_mode) ==
    CASE next_mode = "Mode2OamScan" ->
            IF get_bit(v.data, Mode2IntSelect) THEN <<"Stat">> ELSE <<>>
      [] next_mode = "Mode3DrawPixels" -> <<>>
      [] next_mode = "Mode0HorizontalBlank" ->
            IF get_bit(v.data, Mode0IntSelect) THEN <<"Stat">> ELSE <<>>
      [] next_mode = "Mode1VerticalBlank" ->
            <<"VBlank">> \o (IF get_bit(v.data, Mode1IntSelect) THEN <<"Stat">> ELSE <<>>)

\* Video::tick: the new Video and the returned interrupts
Video_tick(v) ==
    LET m == tick_mode([v EXCEPT !.dot_in_current_mode = @ + 1])
        compared == [m.video EXCEPT
                        !.data = set_bit_mut(@, LyCompare, m.video.current_line = m.video.lyc)]
    IN  IF m.next_mode = "None"
        THEN [video |-> compared, interrupts |-> m.interrupts]
        ELSE [video |-> [compared EXCEPT !.ppu_mode = m.next_mode],
              interrupts |-> m.interrupts \o mode_interrupts(compared, m.next_mode)]

\* Video::try_take_frame: the new Video and whether a frame is returned
try_take_frame(v) ==
    IF ~v.is_frame_ready THEN [video |-> v, frame |-> FALSE]
    ELSE [video |-> [v EXCEPT !.is_frame_ready = FALSE], frame |-> TRUE]

(***************************************************************************)
(* The CPU specification: CPU::tick as the orchestrator calls it, in two   *)
(* steps (interrupt processing, then the halted check and the instruction) *)
(* followed by the rest of Gameboy::tick, where the PPU and the timer may  *)
(* raise their interrupt requests.                                         *)
(***************************************************************************)
\* The call record of this specification: phase is the position in the step,
\* entry the CPU and the interrupt bytes as CPU::tick found them,
\* interrupt_cycles, pc, opcode and elapsed_cycles the locals of CPU::tick
\* (opcode -1 and elapsed_cycles 0: nothing fetched), cycles its return value,
\* and in_handler whether an interrupt has been serviced with no EI or RETI
\* executed since.
NoEntry == [cpu |-> CPU_new, interrupt_enable |-> 0, interrupt_flags |-> 0]

InitCpu ==
    /\ cpu = CPU_new
    /\ mmu = MMU_new
    /\ video = Video_new
    /\ index = 0
    /\ dots = 0
    /\ call = [phase |-> "tick", entry |-> NoEntry, interrupt_cycles |-> 0, pc |-> 0,
               opcode |-> -1, elapsed_cycles |-> 0, cycles |-> 0, in_handler |-> FALSE]

\* cpu.rs line 260
CPU_tick_interrupts ==
    /\ call.phase = "tick"
    /\ index < MaxIndex
    /\ \E r \in {maybe_process_interrupts([cpu |-> cpu, mmu |-> mmu])} :
          /\ cpu' = r.cpu
          /\ mmu' = r.mmu
          /\ call' = [call EXCEPT !.phase = "line262",
                                  !.entry = [cpu |-> cpu,
                                             interrupt_enable |-> mmu.interrupt_enable,
                                             interrupt_flags |-> mmu.interrupt_flags],
                                  !.interrupt_cycles = r.cycles,
                                  !.in_handler = @ \/ r.cycles # 0]
    /\ UNCHANGED <<video, index, dots>>

\* cpu.rs lines 262-382; a program returns only to a pushed address
CPU_tick_instruction ==
    /\ call.phase = "line262"
    /\ \E opcode \in Opcodes : \E operand \in Operands(opcode) :
          /\ decode(opcode) = "Reti" => cpu.sp < StackTop
          /\ \E r \in {tick_after_interrupts(
                            [cpu |-> cpu, mmu |-> mmu, cycles |-> call.interrupt_cycles],
                            opcode, operand)} :
                /\ cpu' = r.cpu
                /\ mmu' = r.mmu
                /\ call' = [call EXCEPT !.phase = "returned", !.pc = r.pc,
                                        !.opcode = r.opcode, !.cycles = r.cycles,
                                        !.elapsed_cycles = r.elapsed_cycles,
                                        !.in_handler = @ /\ r.opcode \notin {\hFB, \hD9}]
    /\ UNCHANGED <<video, index, dots>>

RECURSIVE raise_interrupts(_, _)
raise_interrupts(m, interrupts) ==
    IF interrupts = <<>> THEN m
    ELSE raise_interrupts(set_interrupt_flag(m, Head(interrupts), TRUE), Tail(interrupts))

\* a variant that does not subtract the cycles the bus accesses ticked
tick_leftover_cycles_all(m, cycles) ==
    maybe_tick_timers(take_consumed_cycles(m), cycles)

\* maybe_tick_timers(cycles - consumed_memory_cycles), gameboy.rs lines 82-83
tick_leftover_cycles(m, cycles) ==
    maybe_tick_timers(take_consumed_cycles(m), cycles - m.consumed_read_write_cycles)

\* gameboy.rs lines 71-85: the requests of the PPU, and of a timer another
\* program would have enabled, are an input
Gameboy_tick_rest ==
    /\ call.phase = "returned"
    /\ \E requests \in {<<>>, <<VBlank>>, <<Lcd>>, <<VBlank, Lcd>>, <<Timer>>} :
          mmu' = tick_leftover_cycles(raise_interrupts(mmu, requests), call.cycles)
    /\ index' = index + 1
    /\ call' = [call EXCEPT !.phase = "tick", !.entry = NoEntry]
    /\ UNCHANGED <<cpu, video, dots>>

NextCpu == CPU_tick_interrupts \/ CPU_tick_instruction \/ Gameboy_tick_rest

SpecCpu == InitCpu /\ [][NextCpu]_vars

(***************************************************************************)
(* The PPU specification: Video::tick and Video::try_take_frame called in  *)
(* any order from power-on.                                                *)
(***************************************************************************)
InitVideo ==
    /\ cpu = CPU_new
    /\ mmu = MMU_new
    /\ video = Video_new
    /\ index = 0
    /\ dots = 0
    /\ call = [op |-> "new", frame |-> FALSE, interrupts |-> <<>>]

VideoTick ==
    /\ dots < MaxDots
    /\ LET r == Video_tick(video)
       IN  /\ video' = r.video
           /\ call' = [op |-> "tick", frame |-> FALSE, interrupts |-> r.interrupts]
    /\ dots' = dots + 1
    /\ UNCHANGED <<cpu, mmu, index>>

TryTakeFrame ==
    /\ LET r == try_take_frame(video)
       IN  /\ video' = r.video
           /\ call' = [op |-> "try_take_frame", frame |-> r.frame, interrupts |-> <<>>]
    /\ UNCHANGED <<cpu, mmu, index, dots>>

NextVideo == VideoTick \/ TryTakeFrame

SpecVideo == InitVideo /\ [][NextVideo]_vars

(***************************************************************************)
(* The orchestrator specification: Gameboy::tick from construction, for    *)
(* programs that run a few instructions and then HALT.                     *)
(***************************************************************************)
\* CPU::tick
CPU_tick(st, opcode, operand) ==
    tick_after_interrupts(maybe_process_interrupts(st), opcode, operand)

\* the match of gameboy.rs lines 75-78
interrupt_flag(interrupt) ==
    CASE interrupt = "Stat" -> Lcd
      [] interrupt = "VBlank" -> VBlank

RECURSIVE set_video_interrupts(_, _)
set_video_interrupts(m, interrupts) ==
    IF interrupts = <<>> THEN m
    ELSE set_video_interrupts(set_interrupt_flag(m, interrupt_flag(Head(interrupts)), TRUE),
                              Tail(interrupts))

\* the loop `for _ in 0..cycles` of Gameboy::tick; g.completed records whether LY
\* wrapped from 153 to 0 in one of the Video::tick calls, g.interrupts the
\* interrupts the calls returned and g.ticks the number of calls
RECURSIVE video_ticks(_, _)
video_ticks(g, cycles) ==
    IF cycles = 0 THEN g
    ELSE LET r == Video_tick(g.video)
         IN  video_ticks([video |-> r.video,
                          mmu |-> set_video_interrupts(g.mmu, r.interrupts),
                          completed |-> g.completed
                                        \/ (g.video.current_line = 153 /\ r.video.current_line = 0),
                          interrupts |-> g.interrupts \o r.interrupts,
                          ticks |-> g.ticks + 1],
                         cycles - 1)

\* a variant that runs the PPU's dots of a step (as many as the instruction's
\* published cost) before the CPU's instruction
Gameboy_tick_step_video_first(st, v, opcode, operand) ==
    LET g == video_ticks([video |-> v, mmu |-> st.mmu, completed |-> FALSE,
                          interrupts |-> <<>>, ticks |-> 0],
                         IF st.cpu.halted THEN 1 ELSE NORMAL_OPCODE_CYCLES(opcode))
        c == CPU_tick([cpu |-> st.cpu, mmu |-> g.mmu], opcode, operand)
        taken == try_take_frame(g.video)
    IN  [cpu |-> c.cpu, mmu |-> tick_leftover_cycles(c.mmu, c.cycles), video |-> taken.video,
         cycles |-> c.cycles, completed |-> g.completed, frame |-> taken.frame,
         interrupts |-> g.interrupts, ticks |-> g.ticks,
         consumed |-> c.mmu.consumed_read_write_cycles,
         interrupt_cycles |-> c.interrupt_cycles, opcode |-> c.opcode]

\* Gameboy::tick from line 82 on: g is what the loop of Video::tick calls left;
\* consumed is what take_consumed_cycles returned, interrupt_cycles and opcode
\* the locals of CPU::tick (opcode -1: nothing fetched)
tick_after_video(c, g) ==
    LET taken == try_take_frame(g.video)
    IN  [cpu |-> c.cpu, mmu |-> tick_leftover_cycles(g.mmu, c.cycles), video |-> taken.video,
         cycles |-> c.cycles, completed |-> g.completed, frame |-> taken.frame,
         interrupts |-> g.interrupts, ticks |-> g.ticks,
         consumed |-> g.mmu.consumed_read_write_cycles,
         interrupt_cycles |-> c.interrupt_cycles, opcode |-> c.opcode]

\* Gameboy::tick from line 71 on: c is what CPU::tick returned
tick_after_cpu(c, v) ==
    tick_after_video(c, video_ticks([video |-> v, mmu |-> c.mmu, completed |-> FALSE,
                                     interrupts |-> <<>>, ticks |-> 0], c.cycles))

\* Gameboy::tick
Gameboy_tick_step(st, v, opcode, operand) ==
    tick_after_cpu(CPU_tick(st, opcode, operand), v)

GbOpcodes == {\h00, \h76}

InitGb ==
    /\ cpu = CPU_new
    /\ mmu = MMU_new
    /\ video = Video_new
    /\ index = 0
    /\ dots = 0
    /\ call = [op |-> "new", cycles |-> 0, completed |-> FALSE, frame |-> FALSE]

Gameboy_tick ==
    /\ index < MaxSteps
    /\ \E opcode \in GbOpcodes :
          /\ index >= MaxProgram => (cpu.halted \/ decode(opcode) = "Halt")
          /\ \E r \in {Gameboy_tick_step([cpu |-> cpu, mmu |-> mmu], video, opcode, 0)} :
                /\ cpu' = r.cpu
                /\ mmu' = r.mmu
                /\ video' = r.video
                /\ dots' = dots + r.ticks
                /\ call' = [op |-> "tick", cycles |-> r.cycles,
                            completed |-> r.completed, frame |-> r.frame]
    /\ index' = index + 1

NextGb == Gameboy_tick

SpecGb == InitGb /\ [][NextGb]_vars

(***************************************************************************)
(* The PPU interrupt specification: the program writes the STAT and LYC    *)
(* registers, then Gameboy::tick runs the loop `JP 0x0150` at 0x0150 for a  *)
(* frame.                                                                  *)
(***************************************************************************)
\* register writes made before the first step
MaxRegWrites == 2
\* steps in which the program may still run a NOP before it enters its loop
MaxIrqProgram == 1
\* orchestrator steps explored (a frame and a bit, four dots a step)
MaxIrqSteps == 17700

\* Video::write_register for LCDC, STAT and LYC
Video_write_register(v, address, value) ==
    CASE address = \hFF40 -> [v EXCEPT !.lcd_control = value]
      [] address = \hFF41 -> [v EXCEPT !.data = BitAnd(value, 120)]
      [] address = \hFF45 -> [v EXCEPT !.lyc = value]

\* the (address, value) pairs the program writes
RegisterWrites == {<<\hFF41, \h08>>, <<\hFF41, \h30>>, <<\hFF41, \h40>>, <<\hFF45, 150>>}

InitIrq ==
    /\ cpu = CPU_new
    /\ mmu = MMU_new
    /\ video = Video_new
    /\ index = 0
    /\ dots = 0
    /\ call = [op |-> "new", writes |-> 0, cycles |-> 0, interrupts |-> <<>>]

WriteRegister ==
    /\ index = 0
    /\ call.writes < MaxRegWrites
    /\ \E w \in RegisterWrites : video' = Video_write_register(video, w[1], w[2])
    /\ call' = [op |-> "write_register", writes |-> call.writes + 1, cycles |-> 0,
                interrupts |-> <<>>]
    /\ UNCHANGED <<cpu, mmu, index, dots>>

IrqTick ==
    /\ index < MaxIrqSteps
    /\ \E opcode \in {\h00, \hC3} :
          /\ decode(opcode) = "Noop" => index < MaxIrqProgram
          /\ \E r \in {Gameboy_tick_step([cpu |-> cpu, mmu |-> mmu], video, opcode, \h0150)} :
                /\ cpu' = r.cpu
                /\ mmu' = r.mmu
                /\ video' = r.video
                /\ dots' = dots + r.ticks
                /\ call' = [op |-> "tick", writes |-> 0, cycles |-> r.cycles,
                            interrupts |-> r.interrupts]
    /\ index' = index + 1

NextIrq == WriteRegister \/ IrqTick

SpecIrq == InitIrq /\ [][NextIrq]_vars

(***************************************************************************)
(* The step specification: Gameboy::tick running a program that idles      *)
(* until the first scanline is about to enter HBlank, arms the timer (TIMA *)
(* near its overflow, TAC = 0x05) and then executes instructions drawn     *)
(* from a small set, so that the timer and the PPU raise their requests    *)
(* while those instructions run.                                           *)
(***************************************************************************)
\* NOPs the program starts with
MaxIdle == 236
\* instructions drawn freely after the timer has been armed
MaxFree == 4

\* the instructions that arm the timer, as <<opcode, operands>>: LD A,n;
\* LDH (0x05),A; LD A,0x05; LDH (0x07),A
ArmTimer(i) ==
    CASE i = 1 -> {<<\h3E, \hFE>>, <<\h3E, \hFF>>}
      [] i = 2 -> {<<\hE0, \h05>>}
      [] i = 3 -> {<<\h3E, \h05>>}
      [] i = 4 -> {<<\hE0, \h07>>}

\* NOP; LDH A,(0x0F); EI; LDH (0xFF),A; HALT; JP 0x0150
FreeInstructions ==
    {<<\h00, 0>>, <<\hF0, \h0F>>, <<\hFB, 0>>, <<\hE0, \hFF>>, <<\h76, 0>>,
     <<\hC3, \h0150>>}

\* the instruction bytes at the program counter in step number `index`
Program(i) ==
    IF i < MaxIdle THEN {<<\h00, 0>>}
    ELSE IF i < MaxIdle + 4 THEN ArmTimer(i - MaxIdle + 1)
    ELSE FreeInstructions

InitStep ==
    /\ cpu = CPU_new
    /\ mmu = MMU_new
    /\ video = Video_new
    /\ index = 0
    /\ dots = 0
    /\ call = [op |-> "new", opcode |-> -1, operand |-> 0,
               entry |-> [cpu |-> CPU_new, interrupt_enable |-> 0, interrupt_flags |-> 0,
                          timer |-> Timer_new],
               interrupt_cycles |-> 0, cycles |-> 0, consumed |-> 0, interrupts |-> <<>>]

\* the program's write of STAT before its first instruction
StepWriteRegister ==
    /\ call.op = "new"
    /\ video' = Video_write_register(video, \hFF41, \h08)
    /\ call' = [call EXCEPT !.op = "write_register"]
    /\ UNCHANGED <<cpu, mmu, index, dots>>

StepTick ==
    /\ index < MaxIdle + 4 + MaxFree
    /\ \E instruction \in Program(index) :
          \E r \in {Gameboy_tick_step([cpu |-> cpu, mmu |-> mmu], video,
                                      instruction[1], instruction[2])} :
                /\ cpu' = r.cpu
                /\ mmu' = r.mmu
                /\ video' = r.video
                /\ dots' = dots + r.ticks
                /\ call' = [op |-> "tick",
                            opcode |-> r.opcode,
                            operand |-> instruction[2],
                            entry |-> [cpu |-> cpu, interrupt_enable |-> mmu.interrupt_enable,
                                       interrupt_flags |-> mmu.interrupt_flags,
                                       timer |-> mmu.timer],
                            interrupt_cycles |-> r.interrupt_cycles, cycles |-> r.cycles,
                            consumed |-> r.consumed, interrupts |-> r.interrupts]
    /\ index' = index + 1

NextStep == StepWriteRegister \/ StepTick

SpecStep == InitStep /\ [][NextStep]_vars

(***************************************************************************)
(* The bus specification: MMU::read, MMU::write, MMU::read_word and        *)
(* MMU::write_word called in any order on a new MMU, with the boot ROM     *)
(* mapped or skipped at construction.                                      *)
(***************************************************************************)
\* bus operations explored
MaxBusOps == 4

\* boot ROM / cartridge, cartridge, OAM, DIV, TIMA, the boot ROM latch
ReadAddresses == {\h0000, \h00FF, \h0100, \hFE00, \hFF04, \hFF05, \hFF50}

\* <<address, value>>: the boot ROM latch, DMA from pages 0x00, 0x01 and 0xFE,
\* DIV, TAC and OAM
Writes ==
    {<<\hFF50, \h00>>, <<\hFF50, \h01>>, <<\hFF46, \h00>>, <<\hFF46, \h01>>, <<\hFF46, \hFE>>,
     <<\hFF04, \hFE>>, <<\hFF07, \h05>>, <<\hFE00, \hFE>>}

\* the last boot ROM byte and the first cartridge byte after it; DIV and TIMA
ReadWordAddresses == {\h00FF, \hFF04}

\* <<address, word>>: OAM entries 0 and 1; TIMA and TMA
WordWrites == {<<\hFE00, \h01FE>>, <<\hFF05, \h10FE>>}

disable_boot_rom(m) == [m EXCEPT !.boot_rom_disabled = 1]

\* call.latched: 0x01 has been written to 0xFF50, or the boot ROM was skipped
InitBus ==
    /\ cpu = CPU_new
    /\ video = Video_new
    /\ index = 0
    /\ dots = 0
    /\ \E skip_boot_rom \in BOOLEAN :
          /\ mmu = IF skip_boot_rom THEN disable_boot_rom(MMU_new) ELSE MMU_new
          /\ call = [op |-> "new", address |-> 0, value |-> 0, latched |-> skip_boot_rom]

BusRead ==
    /\ index < MaxBusOps
    /\ \E address \in ReadAddresses :
          \E r \in {mmu_read(mmu, address)} :
             /\ mmu' = r.mmu
             /\ call' = [call EXCEPT !.op = "read", !.address = address, !.value = r.value]
    /\ index' = index + 1
    /\ UNCHANGED <<cpu, video, dots>>

BusWrite ==
    /\ index < MaxBusOps
    /\ \E w \in Writes :
          /\ mmu' = mmu_write(mmu, w[1], w[2])
          /\ call' = [op |-> "write", address |-> w[1], value |-> w[2],
                      latched |-> call.latched \/ (w[1] = \hFF50 /\ w[2] = \h01)]
    /\ index' = index + 1
    /\ UNCHANGED <<cpu, video, dots>>

BusReadWord ==
    /\ index < MaxBusOps
    /\ \E address \in ReadWordAddresses :
          \E r \in {read_word(mmu, address)} :
             /\ mmu' = r.mmu
             /\ call' = [call EXCEPT !.op = "read_word", !.address = address, !.value = r.value]
    /\ index' = index + 1
    /\ UNCHANGED <<cpu, video, dots>>

BusWriteWord ==
    /\ index < MaxBusOps
    /\ \E w \in WordWrites :
          /\ mmu' = write_word(mmu, w[1], w[2])
          /\ call' = [call EXCEPT !.op = "write_word", !.address = w[1], !.value = w[2]]
    /\ index' = index + 1
    /\ UNCHANGED <<cpu, video, dots>>

NextBus == BusRead \/ BusWrite \/ BusReadWord \/ BusWriteWord

SpecBus == InitBus /\ [][NextBus]_vars

(***************************************************************************)
(* The timer specification: the program writes the timer's registers       *)
(* before the first machine cycle and once more later on; in between       *)
(* MMU::maybe_tick_timers(1) ticks one machine cycle at a time.            *)
(***************************************************************************)
\* machine cycles ticked (two TIMA periods of the slowest divider, and a bit)
MaxTimerCycles == 520
\* machine cycles ticked while the timer's registers are as constructed (one
\* wrap of DIV's 16-bit counter, and a bit)
MaxDivCycles == 16400
\* the machine cycle after which the program writes the registers again
LateWrite == 70

\* <<address, value>>: DIV, TIMA, TMA and the four dividers of TAC
TimerWrites ==
    {<<\hFF04, \h5A>>, <<\hFF05, \hFE>>, <<\hFF06, \h10>>,
     <<\hFF07, \h04>>, <<\hFF07, \h05>>, <<\hFF07, \h06>>, <<\hFF07, \h07>>}

\* <<address, value>>: DIV and a change of TAC's divider
LateTimerWrites == {<<\hFF04, \h5A>>, <<\hFF07, \h05>>}

\* TAC = 0x05, the prescaler at 0 and TIMA = 0xFE
Armed(t) == t.timer_control = 5 /\ t.clock_counter = 0 /\ t.timer_counter = \hFE

\* The call record: op, address and value the last operation, before the
\* timer as that operation found it, armed the machine cycles ticked since a
\* write left the timer Armed (-1: it did not), since the machine cycles ticked
\* since TIMA last changed or TAC was last written, and seen whether TIMA has
\* been incremented since TAC was last written.
InitTimer ==
    /\ cpu = CPU_new
    /\ mmu = MMU_new
    /\ video = Video_new
    /\ index = 0
    /\ dots = 0
    /\ call = [op |-> "new", address |-> 0, value |-> 0, before |-> Timer_new,
               armed |-> -1, since |-> 0, seen |-> FALSE]

TimerWrite ==
    /\ \E w \in (IF index = 0 THEN TimerWrites
                 ELSE IF index = LateWrite THEN LateTimerWrites ELSE {}) :
          \E m \in {write_no_consume_cycles(mmu, w[1], w[2])} :
             /\ mmu' = m
             /\ call' = [op |-> "write", address |-> w[1], value |-> w[2],
                         before |-> mmu.timer,
                         armed |-> IF Armed(m.timer) THEN 0 ELSE -1,
                         since |-> IF w[1] = \hFF07 THEN 0 ELSE call.since,
                         seen |-> IF w[1] = \hFF07 THEN FALSE ELSE call.seen]
    /\ UNCHANGED <<cpu, video, index, dots>>

TimerTick ==
    /\ \/ index < MaxTimerCycles
       \/ /\ index < MaxDivCycles
          /\ mmu.timer = [Timer_new EXCEPT !.divider = mmu.timer.divider]
    /\ \E m \in {maybe_tick_timers(mmu, 1)} :
          LET changed == m.timer.timer_counter # mmu.timer.timer_counter
          IN  /\ mmu' = m
              /\ call' = [op |-> "maybe_tick_timers", address |-> 0, value |-> 1,
                          before |-> mmu.timer,
                          armed |-> IF call.armed < 0 THEN -1 ELSE call.armed + 1,
                          since |-> IF changed THEN 0 ELSE call.since + 1,
                          seen |-> call.seen \/ changed]
    /\ index' = index + 1
    /\ UNCHANGED <<cpu, video, dots>>

NextTimer == TimerWrite \/ TimerTick

SpecTimer == InitTimer /\ [][NextTimer]_vars

(***************************************************************************)
(* Properties of interrupt servicing and HALT (SpecCpu)                    *)
(***************************************************************************)
Bit(value, n) == (value \div (2 ^ n)) % 2

\* the sources whose bit is set in both IE and IF
PendingSources(ie, if) == {s \in 0 .. 4 : Bit(ie, s) = 1 /\ Bit(if, s) = 1}

Lowest(S) == CHOOSE s \in S : \A t \in S : s <= t

\* 0x40, 0x48, 0x50, 0x58, 0x60
Vector(s) == 64 + 8 * s

\* the sources pending when the running CPU::tick was entered
PendingAtEntry == PendingSources(call.entry.interrupt_enable, call.entry.interrupt_flags)

InTick == call.phase \in {"line262", "returned"}

\* the running CPU::tick serviced an interrupt
Serviced == InTick /\ call.interrupt_cycles # 0

\* PC at entry is on the stack, low byte first, PC is the vector, IME is clear
ServiceDone ==
    /\ cpu.sp = call.entry.cpu.sp - 2
    /\ mmu.high_ram[cpu.sp] = call.entry.cpu.pc % 256
    /\ mmu.high_ram[cpu.sp + 1] = call.entry.cpu.pc \div 256
    /\ cpu.pc = Vector(Lowest(PendingAtEntry))
    /\ ~cpu.interrupts_enabled

\* C1 as claimed: a tick that services an interrupt pushes the PC it had at
\* entry, sets PC to the vector, clears IME, executes no instruction (PC is the
\* vector when the tick returns) and returns exactly 5 cycles.
C1_ServiceTickSkipsInstruction ==
    /\ (call.phase = "line262" /\ Serviced) => ServiceDone
    /\ (call.phase = "returned" /\ Serviced) =>
          /\ call.opcode = -1
          /\ cpu.pc = Vector(Lowest(PendingAtEntry))
          /\ call.cycles = 5

\* C1 amended: a tick that services an interrupt pushes the PC it had at entry,
\* sets PC to the vector and clears IME, and then fetches and executes the
\* instruction at the vector in the same tick; it returns 5 plus the cost of
\* that instruction.
C1_ServiceTickRunsHandlerInstruction ==
    /\ (call.phase = "line262" /\ Serviced) => ServiceDone
    /\ (call.phase = "returned" /\ Serviced) =>
          /\ call.opcode \in Opcodes
          /\ call.pc = Vector(Lowest(PendingAtEntry))
          /\ call.cycles = 5 + call.elapsed_cycles

\* IE=0x01, IF=0x01, IME=1 at PC=0x0150: 0x0150 is on the stack, the
\* instruction at 0x0040 has run
C1_Witness ==
    /\ call.phase = "returned" /\ Serviced
    /\ call.entry.cpu.pc = \h0150
    /\ call.entry.interrupt_enable = 1 /\ call.entry.interrupt_flags = 1
    /\ mmu.high_ram[\hFFFC] = \h50 /\ mmu.high_ram[\hFFFD] = \h01
    /\ call.pc = \h40 /\ call.opcode = \hFB /\ cpu.pc = \h41

\* C2: an interrupt is serviced in a tick iff IME is set and some source is
\* set in both IE and IF; the lowest such source is the one serviced, PC is its
\* vector, and no second source is serviced (one push, the other pending
\* sources stay pending).
C2_ServicedIffEnabledAndPending ==
    (call.phase = "line262") =>
        /\ Serviced <=> (call.entry.cpu.interrupts_enabled /\ PendingAtEntry # {})
        /\ Serviced =>
              /\ cpu.pc = Vector(Lowest(PendingAtEntry))
              /\ cpu.sp = call.entry.cpu.sp - 2
              /\ call.interrupt_cycles = 5
              /\ PendingSources(mmu.interrupt_enable, mmu.interrupt_flags)
                    = PendingAtEntry \ {Lowest(PendingAtEntry)}
        /\ ~Serviced =>
              /\ cpu.pc = call.entry.cpu.pc
              /\ cpu.sp = call.entry.cpu.sp
              /\ mmu.interrupt_flags = call.entry.interrupt_flags

\* VBlank and Lcd both enabled and requested: VBlank is serviced, Lcd stays pending
C2_Witness ==
    /\ call.phase = "line262" /\ Serviced
    /\ PendingAtEntry = {0, 1}
    /\ cpu.pc = \h40
    /\ PendingSources(mmu.interrupt_enable, mmu.interrupt_flags) = {1}

\* C3 as claimed: servicing source s clears bit s of IF and leaves every other
\* bit of IF as it was.
C3_ServiceClearsOnlyItsFlag ==
    (call.phase = "line262" /\ Serviced) =>
        mmu.interrupt_flags = call.entry.interrupt_flags - 2 ^ Lowest(PendingAtEntry)

\* C4: IME is false right after a service; IME turns true only in the execution
\* of EI (0xFB) or RETI (0xD9); and from a service until the next executed EI or
\* RETI no interrupt is serviced, whatever IE and IF hold.
C4_ImeGatesService ==
    /\ (call.phase = "line262" /\ Serviced) => ~cpu.interrupts_enabled
    /\ (InTick /\ cpu.interrupts_enabled /\ ~call.entry.cpu.interrupts_enabled) =>
          (call.phase = "returned" /\ call.opcode \in {\hFB, \hD9})
    /\ (call.phase = "tick" /\ call.in_handler) => ~cpu.interrupts_enabled
    /\ (InTick /\ call.in_handler /\ call.interrupt_cycles = 0) =>
          ~call.entry.cpu.interrupts_enabled

\* a whole tick after a service, with a request enabled and pending and no EI or
\* RETI executed: nothing is serviced
C4_Witness ==
    /\ call.phase = "returned" /\ call.in_handler
    /\ call.interrupt_cycles = 0
    /\ PendingAtEntry # {}

HaltedAtEntry == InTick /\ call.entry.cpu.halted

\* the tick changed nothing (no register, no bus access) and returned 1
HaltedTickIdle ==
    /\ cpu = call.entry.cpu
    /\ mmu.consumed_read_write_cycles = 0
    /\ mmu.interrupt_flags = call.entry.interrupt_flags
    /\ call.phase = "returned" => (call.cycles = 1 /\ call.opcode = -1)

\* C5 as claimed: a halted tick returns 1 cycle, makes no bus access and leaves
\* PC, SP and the registers unchanged while IE & IF == 0, and the halted state
\* ends at the first tick that starts with IE & IF != 0, IME set or not.
C5_HaltedUntilIeAndIf ==
    HaltedAtEntry =>
        IF BitAnd(call.entry.interrupt_enable, call.entry.interrupt_flags) = 0
        THEN HaltedTickIdle
        ELSE call.phase = "line262" => ~cpu.halted

\* C5 amended: the same with IE & IF taken over the five interrupt sources
\* (IE & IF & 0x1F): bits 5..7 of the two bytes neither end HALT nor count as
\* a pending interrupt.
C5_HaltedUntilSourcePending ==
    HaltedAtEntry =>
        IF PendingAtEntry = {}
        THEN HaltedTickIdle
        ELSE call.phase = "line262" => ~cpu.halted

\* a halted tick that stays idle although IE & IF is 0x20
C5_Witness ==
    /\ HaltedAtEntry /\ call.phase = "returned"
    /\ BitAnd(call.entry.interrupt_enable, call.entry.interrupt_flags) = \h20
    /\ cpu.halted /\ call.cycles = 1

\* a halted tick entered with an enabled interrupt pending and IME false
WokenWithoutIme ==
    HaltedAtEntry /\ PendingAtEntry # {} /\ ~call.entry.cpu.interrupts_enabled

\* C6 as claimed: such a tick clears HALT, consumes 1 cycle and returns without
\* executing an instruction (PC unchanged).
C6_WakeTickSkipsInstruction ==
    WokenWithoutIme =>
        /\ call.phase = "line262" => ~cpu.halted
        /\ call.phase = "returned" =>
              (call.cycles = 1 /\ call.opcode = -1 /\ cpu.pc = call.entry.cpu.pc)

\* C6 amended: such a tick clears HALT, services nothing, and then fetches and
\* executes the instruction at PC in the same tick, returning that
\* instruction's cost.
C6_WakeTickRunsInstruction ==
    WokenWithoutIme =>
        /\ call.phase = "line262" =>
              (~cpu.halted /\ call.interrupt_cycles = 0 /\ cpu.pc = call.entry.cpu.pc)
        /\ call.phase = "returned" =>
              /\ call.opcode \in Opcodes
              /\ call.pc = call.entry.cpu.pc
              /\ call.cycles = call.elapsed_cycles

\* woken by a VBlank request with IME false: the next instruction has run
C6_Witness ==
    /\ WokenWithoutIme /\ call.phase = "returned"
    /\ PendingAtEntry = {0}
    /\ call.opcode = \h00
    /\ cpu.pc = call.entry.cpu.pc + 1

(***************************************************************************)
(* Properties of frame delivery (SpecGb)                                   *)
(***************************************************************************)
\* C7: every Gameboy.tick from construction onward returns a framebuffer if and
\* only if LY wrapped from 153 to 0 in one of that step's Video.tick calls.
C7_FrameIffCompleted ==
    call.op = "tick" => (call.frame <=> call.completed)

(***************************************************************************)
(* Properties of the PPU (SpecVideo)                                       *)
(***************************************************************************)
FrameTicks == 144 * (80 + 172 + 204) + 10 * 456

IsVideoTick == dots' = dots + 1

LyWraps == video.current_line = 153 /\ video'.current_line = 0

\* C8: counting Video.tick calls from power-on, a tick sets the frame-ready
\* latch exactly when it is tick number 70,224 x k (k >= 1), which is the tick
\* where LY wraps from 153 to 0; every other tick leaves the latch as it was;
\* try_take_frame returns a frame exactly when the latch is set and leaves it
\* clear, so a second read without a new frame returns none.
C8_LatchSetOncePerFrame ==
    [][/\ IsVideoTick =>
            /\ LyWraps <=> (dots' % 70224 = 0)
            /\ LyWraps => video'.is_frame_ready
            /\ ~LyWraps => video'.is_frame_ready = video.is_frame_ready
       /\ ~IsVideoTick =>
            /\ call'.frame = video.is_frame_ready
            /\ ~video'.is_frame_ready]_vars

C8_Witness ==
    /\ dots = 2 * FrameTicks
    /\ call.op = "try_take_frame"
    /\ call.frame
    /\ ~video.is_frame_ready

\* C9: in the initial state and after every Video.tick, LY is in 0..153 and
\* the mode is VBlank if and only if LY is in 144..153.
C9_LyRangeAndVBlank ==
    /\ video.current_line \in 0 .. 153
    /\ video.ppu_mode = "Mode1VerticalBlank" <=> video.current_line \in 144 .. 153

C9_Witness ==
    /\ call.op = "tick"
    /\ video.current_line = 153
    /\ video.ppu_mode = "Mode1VerticalBlank"
    /\ dots > FrameTicks

Threshold(mode) ==
    CASE mode = "Mode2OamScan" -> 80
      [] mode = "Mode3DrawPixels" -> 172
      [] mode = "Mode0HorizontalBlank" -> 204
      [] mode = "Mode1VerticalBlank" -> 456

\* what one Video.tick does to the mode, LY and the dot counter: the counter
\* is the number of ticks spent in the mode (in the VBlank line), the tick that
\* makes it reach the threshold resets it to 0 and moves on, any other tick
\* only counts
ModeStep ==
    LET last == video.dot_in_current_mode + 1 = Threshold(video.ppu_mode)
        ly == video.current_line
    IN  IF ~last
        THEN /\ video'.ppu_mode = video.ppu_mode
             /\ video'.current_line = ly
             /\ video'.dot_in_current_mode = video.dot_in_current_mode + 1
        ELSE /\ video'.dot_in_current_mode = 0
             /\ CASE video.ppu_mode = "Mode2OamScan" ->
                        video'.ppu_mode = "Mode3DrawPixels" /\ video'.current_line = ly
                  [] video.ppu_mode = "Mode3DrawPixels" ->
                        video'.ppu_mode = "Mode0HorizontalBlank" /\ video'.current_line = ly
                  [] video.ppu_mode = "Mode0HorizontalBlank" ->
                        /\ video'.current_line = ly + 1
                        /\ video'.ppu_mode = IF ly = 143 THEN "Mode1VerticalBlank"
                                              ELSE "Mode2OamScan"
                  [] video.ppu_mode = "Mode1VerticalBlank" ->
                        IF ly = 153
                        THEN video'.current_line = 0 /\ video'.ppu_mode = "Mode2OamScan"
                        ELSE video'.current_line = ly + 1
                             /\ video'.ppu_mode = "Mode1VerticalBlank"

\* C10: under repeated Video.tick the mode leaves OamScan for DrawPixels after
\* exactly 80 ticks, DrawPixels for HBlank after exactly 172, HBlank for OamScan
\* (VBlank after line 143) after exactly 204 with LY incremented, and in VBlank
\* LY increments every 456 ticks until after line 153 LY becomes 0 and the mode
\* OamScan; the dot counter is 0 after each of these ticks and below the
\* current mode's threshold between ticks; nothing else changes the mode.
C10_ModeTransitions ==
    /\ [](video.dot_in_current_mode < Threshold(video.ppu_mode))
    /\ [][/\ IsVideoTick => ModeStep
          /\ ~IsVideoTick => /\ video'.ppu_mode = video.ppu_mode
                             /\ video'.current_line = video.current_line
                             /\ video'.dot_in_current_mode = video.dot_in_current_mode]_vars

C10_Witness ==
    /\ call.op = "tick"
    /\ dots = FrameTicks + 80 + 172 + 204
    /\ video.ppu_mode = "Mode2OamScan"
    /\ video.current_line = 1
    /\ video.dot_in_current_mode = 0

(***************************************************************************)
(* Properties of the PPU's interrupt requests (SpecIrq)                    *)
(***************************************************************************)
\* the step just taken is a Gameboy::tick of the PPU interrupt specification
IsIrqTick == call'.op = "tick"

\* the step entered the mode: the PPU is in it after the step and was not before
Entered(mode) == video'.ppu_mode = mode /\ video.ppu_mode # mode

\* the interrupt is among those Video::tick returned in the step
Returned(interrupt) == \E i \in DOMAIN call'.interrupts : call'.interrupts[i] = interrupt

\* the STAT select bit of each mode that has one
ModeSelect == {<<"Mode2OamScan", 5>>, <<"Mode0HorizontalBlank", 3>>, <<"Mode1VerticalBlank", 4>>}

\* C11: in the step in which the PPU enters VBlank (LY becomes 144) a VBlank
\* interrupt is returned and IF bit 0 is set after the step, whatever STAT holds;
\* in a step in which the PPU enters OamScan, HBlank or VBlank while STAT bit
\* 5, 3 or 4 is set, an LCD-stat interrupt is returned and IF bit 1 is set after
\* the step; a step that enters DrawPixels returns no interrupt and leaves IF
\* as it was.
C11_ModeEntryInterrupts ==
    [][IsIrqTick =>
        /\ Entered("Mode1VerticalBlank") =>
              /\ video'.current_line = 144
              /\ Returned("VBlank")
              /\ Bit(mmu'.interrupt_flags, 0) = 1
        /\ \A sel \in ModeSelect :
              (Entered(sel[1]) /\ Bit(video.data, sel[2]) = 1) =>
                  (Returned("Stat") /\ Bit(mmu'.interrupt_flags, 1) = 1)
        /\ Entered("Mode3DrawPixels") =>
              (call'.interrupts = <<>> /\ mmu'.interrupt_flags = mmu.interrupt_flags)]_vars

\* a step has entered VBlank with STAT bits 5 and 4 set: LY is 144 and the step
\* returned both interrupts
C11_Witness ==
    /\ call.op = "tick"
    /\ video.ppu_mode = "Mode1VerticalBlank"
    /\ video.current_line = 144
    /\ video.dot_in_current_mode < 4
    /\ Bit(video.data, 4) = 1
    /\ call.interrupts = <<"VBlank", "Stat">>
    /\ mmu.interrupt_flags = 3

\* C12: in every step in which LY takes a new value (a line 1..143, a line
\* 144..153 inside VBlank, or the wrap to line 0) that equals LYC while STAT
\* bit 6 is set, an LCD-stat interrupt is returned and IF bit 1 is set after
\* the step.
C12_LycInterruptEveryLine ==
    [][IsIrqTick =>
        ((/\ video'.current_line # video.current_line
          /\ video'.current_line = video'.lyc
          /\ Bit(video.data, 6) = 1)
            => (Returned("Stat") /\ Bit(mmu'.interrupt_flags, 1) = 1))]_vars

(***************************************************************************)
(* Properties of the orchestrator step and its timer (SpecStep)            *)
(***************************************************************************)
\* the step just taken is a Gameboy::tick of the step specification
IsStepTick == call'.op = "tick"

\* the last step executed `LDH A,(0x0F)`, a read of IF, without servicing an
\* interrupt first
ReadIfInStep == call.op = "tick" /\ call.opcode = \hF0 /\ call.interrupt_cycles = 0

\* C13 as stated: the byte an instruction reads at 0xFF0F is the IF byte the
\* step started with, whatever the PPU and the timer raise while it runs.
C13_RaisedBitsInvisible ==
    ReadIfInStep => cpu.a = call.entry.interrupt_flags

\* the timer, as the step found it, overflows TIMA within the three machine
\* cycles of the bus accesses of `LDH A,(0x0F)` (opcode, operand, the read)
OverflowsBeforeRead ==
    LET t == call.entry.timer
        d == CASE t.timer_control % 4 = 0 -> 1024
               [] t.timer_control % 4 = 1 -> 16
               [] t.timer_control % 4 = 2 -> 64
               [] t.timer_control % 4 = 3 -> 256
    IN  /\ Bit(t.timer_control, 2) = 1
        /\ t.timer_counter = 255
        /\ t.clock_counter + 12 >= d

\* C13, amended: the byte an instruction reads at 0xFF0F holds no bit the
\* PPU raises in that step, but it does hold IF bit 2 when the timer overflowed
\* on one of the instruction's own bus accesses up to that read: the byte is
\* the IF byte the step started with, with bit 2 set in that case.  The bits
\* raised in a step are in IF when the step returns, and an interrupt is
\* serviced only by the interrupt processing that opens a step: a request
\* raised during a step leaves PC, SP and IME to the instruction.
C13_PpuBitsInvisibleTimerBitVisible ==
    /\ ReadIfInStep =>
          /\ cpu.a = IF OverflowsBeforeRead
                     THEN BitOr(call.entry.interrupt_flags, Pow2(Timer))
                     ELSE call.entry.interrupt_flags
          /\ \A i \in DOMAIN call.interrupts :
                Bit(mmu.interrupt_flags, interrupt_flag(call.interrupts[i])) = 1
    /\ (call.op = "tick" /\ call.interrupt_cycles = 0 /\ call.opcode \in {\h00, \hF0}) =>
          /\ cpu.sp = call.entry.cpu.sp
          /\ cpu.interrupts_enabled = call.entry.cpu.interrupts_enabled
          /\ cpu.pc = call.entry.cpu.pc + (IF call.opcode = \h00 THEN 1 ELSE 2)

\* an `LDH A,(0x0F)` has read IF bit 2, which the timer set during that
\* instruction
C13_Witness ==
    /\ ReadIfInStep
    /\ Bit(call.entry.interrupt_flags, Timer) = 0
    /\ Bit(cpu.a, Timer) = 1

\* an `LDH A,(0x0F)` ran in the step in which the PPU raised the LCD-stat
\* request and did not read it
C13_WitnessPpu ==
    /\ ReadIfInStep
    /\ call.interrupts = <<"Stat">>
    /\ Bit(cpu.a, Lcd) = 0
    /\ Bit(mmu.interrupt_flags, Lcd) = 1

\* T-cycles the timer has counted towards TIMA while TAC = 0x05 and TMA = 0:
\* 16 per TIMA increment plus the prescaler, modulo 256 * 16
TimaCycles(t) == t.timer_counter * 16 + t.clock_counter

\* C14: in every Gameboy.tick, with c the cycle count CPU.tick returned,
\* Video.tick is called exactly c times; the timer is advanced by exactly c
\* machine cycles in total (DIV's counter by 4c, and TIMA's count by 4c when
\* the timer runs through the step), the cycles its bus accesses ticked being at
\* most c; and the consumed-cycles accumulator is 0 when the step returns.
C14_StepAdvancesPpuAndTimer ==
    [][IsStepTick =>
        /\ dots' = dots + call'.cycles
        /\ call'.consumed <= call'.cycles
        /\ mmu'.timer.divider = (mmu.timer.divider + 4 * call'.cycles) % 65536
        /\ (mmu.timer.timer_control = 5 /\ mmu.timer.timer_modulo = 0) =>
              TimaCycles(mmu'.timer) = (TimaCycles(mmu.timer) + 4 * call'.cycles) % 4096
        /\ mmu'.consumed_read_write_cycles = 0]_vars

\* a step has serviced the timer's interrupt and run a NOP: 6 cycles, of which
\* the two pushes and the fetch ticked 3 and the orchestrator the other 3
C14_Witness ==
    /\ call.op = "tick"
    /\ call.interrupt_cycles = 5
    /\ call.opcode = \h00
    /\ call.cycles = 6
    /\ call.consumed = 3
    /\ mmu.timer.timer_control = 5
    /\ mmu.consumed_read_write_cycles = 0

(***************************************************************************)
(* Properties of the bus (SpecBus)                                         *)
(***************************************************************************)
\* the 16-bit counter behind DIV after n machine cycles
DividerAfter(n) == (mmu.timer.divider + 4 * n) % 65536

\* the timer has counted one machine cycle towards TIMA: with TAC = 0x05 the
\* prescaler gains 4 T-cycles and TIMA one increment for every 16 of them
TimaTicked ==
    LET t == mmu.timer
        wraps == t.clock_counter + 4 >= 16
    IN  t.timer_control = 5 =>
            /\ mmu'.timer.clock_counter = (t.clock_counter + 4) % 16
            /\ mmu'.timer.timer_counter =
                  (IF ~wraps THEN t.timer_counter
                   ELSE IF t.timer_counter = 255 THEN t.timer_modulo
                   ELSE t.timer_counter + 1)

\* C15: every MMU.read and MMU.write adds exactly 1 to the consumed-cycles
\* accumulator and advances the timer by exactly one machine cycle before the
\* access is performed (a read of DIV returns the counter as ticked, a write of
\* DIV leaves it 0); read_word and write_word add exactly 2 and tick two machine
\* cycles, with the low byte accessed at the address and the high byte at
\* address+1.
C15_AccessBillsAndTicksFirst ==
    [][/\ call'.op = "read" =>
            /\ mmu'.consumed_read_write_cycles = mmu.consumed_read_write_cycles + 1
            /\ mmu'.timer.divider = DividerAfter(1)
            /\ TimaTicked
            /\ call'.address = \hFF04 => call'.value = DividerAfter(1) \div 256
            /\ call'.address = \hFF05 => call'.value = mmu'.timer.timer_counter
       /\ call'.op = "write" =>
            /\ mmu'.consumed_read_write_cycles = mmu.consumed_read_write_cycles + 1
            /\ mmu'.timer.divider = (IF call'.address = \hFF04 THEN 0 ELSE DividerAfter(1))
            /\ call'.address # \hFF07 => TimaTicked
       /\ call'.op = "read_word" =>
            /\ mmu'.consumed_read_write_cycles = mmu.consumed_read_write_cycles + 2
            /\ mmu'.timer.divider = DividerAfter(2)
            /\ call'.address = \h00FF =>
                  call'.value = read_no_consume_cycles(mmu, \h00FF)
                                + 256 * read_no_consume_cycles(mmu, \h0100)
            /\ call'.address = \hFF04 =>
                  call'.value = DividerAfter(1) \div 256 + 256 * mmu'.timer.timer_counter
       /\ call'.op = "write_word" =>
            /\ mmu'.consumed_read_write_cycles = mmu.consumed_read_write_cycles + 2
            /\ mmu'.timer.divider = DividerAfter(2)
            /\ call'.address = \hFE00 =>
                  /\ mmu'.oam[0] = call'.value % 256
                  /\ mmu'.oam[1] = call'.value \div 256
            /\ call'.address = \hFF05 =>
                  mmu'.timer.timer_modulo = call'.value \div 256]_vars

\* with TAC = 0x05, a read of TIMA is the bus access on which TIMA is
\* incremented, and it has returned the incremented value
C15_Witness ==
    /\ call.op = "read"
    /\ call.address = \hFF05
    /\ mmu.timer.timer_control = 5
    /\ mmu.timer.clock_counter = 0
    /\ mmu.timer.timer_counter = 1
    /\ call.value = 1
    /\ mmu.consumed_read_write_cycles = 5

\* the write just made is the DMA trigger, a bus write to 0xFF46
IsDmaWrite == call'.op = "write" /\ call'.address = \hFF46

\* C19: a bus write of byte b to 0xFF46 copies, for every i in 0..=0x9F, the
\* byte a bus read of address b*0x100+i would return into OAM entry i; the
\* copy adds nothing to the consumed-cycles accumulator and does not tick the
\* timer, so the whole write bills exactly 1 machine cycle and ticks the timer
\* once.
C19_DmaCopiesPageIntoOam ==
    [][IsDmaWrite =>
        /\ \A i \in 0 .. 159 :
              mmu'.oam[i] = mmu_read(mmu, call'.value * 256 + i).value
        /\ mmu'.consumed_read_write_cycles = mmu.consumed_read_write_cycles + 1
        /\ mmu'.timer.divider = DividerAfter(1)]_vars

\* a DMA from page 0x00 has copied the cartridge's first 160 bytes into OAM,
\* the boot ROM being unmapped by an earlier write
C19_Witness ==
    /\ call.op = "write"
    /\ call.address = \hFF46
    /\ call.value = 0
    /\ mmu.boot_rom_disabled = 1
    /\ \A i \in 0 .. 159 : mmu.oam[i] = Cartridge_read(mmu.cartridge, i)
    /\ mmu.oam[159] = 159
    /\ mmu.consumed_read_write_cycles = 2

\* the read just made is a bus read in 0x0000-0x00FF
IsLowRead == call'.op = "read" /\ call'.address <= \hFF

\* C20: once 0x01 has been written to 0xFF50 (or the boot ROM was skipped at
\* construction), every later read of 0x0000-0x00FF returns the cartridge byte,
\* whatever is written to 0xFF50 or elsewhere afterwards; before that, those
\* reads return the boot-ROM byte.
C20_BootRomLatchOneWay ==
    [][IsLowRead =>
        call'.value = (IF call.latched
                       THEN Cartridge_read(mmu.cartridge, call'.address)
                       ELSE BOOT_ROM[call'.address + 1])]_vars

(***************************************************************************)
(* Properties of the timer (SpecTimer)                                     *)
(***************************************************************************)
\* C16 as stated: with TAC = 0x05, the prescaler at 0 and TIMA = 0xFE, IF bit
\* 2 is not set before 32 machine cycles have been ticked, and after the 32nd
\* it is set and TIMA equals TMA.
C16_OverflowAfter32Cycles ==
    /\ (call.armed >= 0 /\ call.armed < 32) => Bit(mmu.interrupt_flags, Timer) = 0
    /\ call.armed = 32 =>
          (Bit(mmu.interrupt_flags, Timer) = 1
           /\ mmu.timer.timer_counter = mmu.timer.timer_modulo)

\* C16, amended: with TAC = 0x05, the prescaler at 0 and TIMA = 0xFE, TIMA
\* overflows and IF bit 2 is set after exactly 8 machine cycles (32 T-cycles)
\* of timer ticking and not earlier, and TIMA equals TMA immediately after the
\* overflow.
C16_OverflowAfter8Cycles ==
    /\ (call.armed >= 0 /\ call.armed < 8) =>
          /\ Bit(mmu.interrupt_flags, Timer) = 0
          /\ mmu.timer.timer_counter = (IF call.armed < 4 THEN \hFE ELSE \hFF)
    /\ call.armed = 8 =>
          /\ Bit(mmu.interrupt_flags, Timer) = 1
          /\ mmu.timer.timer_counter = mmu.timer.timer_modulo

\* the eighth machine cycle has overflowed TIMA and reloaded it with TMA = 0x10
C16_Witness ==
    /\ call.armed = 8
    /\ call.before.timer_counter = \hFF
    /\ mmu.timer.timer_counter = \h10
    /\ mmu.timer.timer_modulo = \h10
    /\ Bit(mmu.interrupt_flags, Timer) = 1

\* the step just taken ticked the timer one machine cycle
IsTimerTick == call'.op = "maybe_tick_timers"

\* the byte read at 0xFF04
DivByte(m) == read_no_consume_cycles(m, \hFF04)

C17_WitnessWrap ==
    /\ call.op = "maybe_tick_timers"
    /\ call.before.divider = 65532
    /\ mmu.timer.divider = 0

\* the divider TAC bits 1..0 select, in T-cycles
TacDivider(tac) ==
    CASE tac % 4 = 0 -> 1024
      [] tac % 4 = 1 -> 16
      [] tac % 4 = 2 -> 64
      [] tac % 4 = 3 -> 256

\* C18: with TAC bit 2 set and TAC held constant, TIMA increments exactly once
\* per d T-cycles, d = 1024, 16, 64, 256 for TAC bits 1..0 = 00, 01, 10, 11:
\* a machine cycle changes TIMA by one increment at most, an increment comes
\* exactly d T-cycles after the one before it, and an increment from 0xFF
\* reloads TIMA with TMA and sets IF bit 2; with TAC bit 2 clear, ticking never
\* changes TIMA and never sets IF bit 2.
C18_TimaOncePerDivider ==
    [][IsTimerTick =>
        LET t == mmu.timer
            d == TacDivider(t.timer_control)
            changed == mmu'.timer.timer_counter # t.timer_counter
        IN  IF Bit(t.timer_control, 2) = 0
            THEN /\ ~changed
                 /\ mmu'.interrupt_flags = mmu.interrupt_flags
            ELSE /\ changed =>
                      /\ mmu'.timer.timer_counter =
                            (IF t.timer_counter = 255 THEN t.timer_modulo
                             ELSE t.timer_counter + 1)
                      /\ t.timer_counter = 255 => Bit(mmu'.interrupt_flags, Timer) = 1
                 /\ call.seen =>
                      (changed <=> (call.since + 1) * 4 = d)]_vars

(***************************************************************************)
(* The fatal-access specification: bus reads and writes, among them the    *)
(* ones that panic, in any order with Video::tick, from power-on.  A panic *)
(* ends the program: no action follows it.                                 *)
(***************************************************************************)
\* bus accesses explored
MaxFatalOps == 2
\* dots explored (a scanline and a bit)
MaxFatalDots == 460

\* the arms `_ => panic!` of read_io and write_io: the IO addresses no arm names
UnmappedIo ==
    {\hFF03} \cup (\hFF08 .. \hFF0E) \cup (\hFF27 .. \hFF2F)
    \cup {\hFF4C, \hFF4E, \hFF4F} \cup (\hFF51 .. \hFF7E)

\* a variant that lets a read of 0xFEA0..=0xFEFF return
read_panics_below_oam(address) ==
    \/ address \in \hE000 .. \hFDFF
    \/ address \in UnmappedIo \cup {\hFF46, \hFF7F}

\* the arms of read_no_consume_cycles and read_io that panic (0xFF0F returns
\* before the match)
read_panics(address) ==
    \/ address \in \hE000 .. \hFDFF
    \/ address \in \hFEA0 .. \hFEFF
    \/ address \in UnmappedIo \cup {\hFF46, \hFF7F}

\* the arms of Video::write_register that panic
write_register_panics(address) == address \in {\hFF44, \hFF46}

\* the arms of write_no_consume_cycles and write_io that panic; a write of
\* 0xFF46 panics when one of the 160 reads of do_dma_transfer does
write_panics(address, value) ==
    \/ address \in \hE000 .. \hFDFF
    \/ address \in UnmappedIo
    \/ address \in (\hFF40 .. \hFF45) \cup (\hFF47 .. \hFF4B) /\ write_register_panics(address)
    \/ address = \hFF46 /\ \E i \in 0 .. OamSize - 1 : read_panics(value * 256 + i)

\* the addresses read
FatalReads == {\hE000, \hFDFF, \hFE9F, \hFEA0, \hFEFF, \hFF04}

\* the (address, value) pairs written
FatalWrites ==
    {<<\hE000, \h01>>, <<\hFDFF, \h01>>, <<\hFE9F, \h01>>, <<\hFEA0, \h01>>,
     <<\hFF41, \h08>>, <<\hFF44, \h00>>, <<\hFF44, \h01>>, <<\hFF45, \h01>>,
     <<\hFF46, \hE0>>, <<\hFF46, \hFE>>}

InitFatal ==
    /\ cpu = CPU_new
    /\ mmu = MMU_new
    /\ video = Video_new
    /\ index = 0
    /\ dots = 0
    /\ call = [op |-> "new", address |-> 0, value |-> 0, panicked |-> FALSE]

\* MMU::read; value -1: nothing was returned
FatalRead ==
    /\ ~call.panicked
    /\ index < MaxFatalOps
    /\ \E address \in FatalReads :
          IF read_panics(address)
          THEN /\ mmu' = consume_cycle(mmu)
               /\ call' = [op |-> "read", address |-> address, value |-> -1,
                           panicked |-> TRUE]
          ELSE \E r \in {mmu_read(mmu, address)} :
                  /\ mmu' = r.mmu
                  /\ call' = [op |-> "read", address |-> address, value |-> r.value,
                              panicked |-> FALSE]
    /\ index' = index + 1
    /\ UNCHANGED <<cpu, video, dots>>

\* MMU::write; the PPU registers 0xFF40..=0xFF45 go to Video::write_register
FatalWrite ==
    /\ ~call.panicked
    /\ index < MaxFatalOps
    /\ \E w \in FatalWrites :
          /\ call' = [op |-> "write", address |-> w[1], value |-> w[2],
                      panicked |-> write_panics(w[1], w[2])]
          /\ IF write_panics(w[1], w[2])
             THEN mmu' = consume_cycle(mmu) /\ video' = video
             ELSE IF w[1] \in \hFF40 .. \hFF45
             THEN /\ mmu' = consume_cycle(mmu)
                  /\ video' = Video_write_register(video, w[1], w[2])
             ELSE mmu' = mmu_write(mmu, w[1], w[2]) /\ video' = video
    /\ index' = index + 1
    /\ UNCHANGED <<cpu, dots>>

\* Video::tick
FatalVideoTick ==
    /\ ~call.panicked
    /\ dots < MaxFatalDots
    /\ video' = Video_tick(video).video
    /\ call' = [op |-> "tick", address |-> 0, value |-> 0, panicked |-> FALSE]
    /\ dots' = dots + 1
    /\ UNCHANGED <<cpu, mmu, index>>

NextFatal == FatalRead \/ FatalWrite \/ FatalVideoTick

SpecFatal == InitFatal /\ [][NextFatal]_vars

(***************************************************************************)
(* C21                                                                     *)
(***************************************************************************)
IsFatalAccess == index' = index + 1 /\ call'.op \in {"read", "write"}

\* what a bus access that panics leaves behind: the access was billed and the
\* timer ticked, nothing else moved
OnlyBilled ==
    /\ mmu' = consume_cycle(mmu)
    /\ video' = video

\* C21: a bus read or write of 0xE000-0xFDFF, a bus read of 0xFEA0-0xFEFF and
\* a bus write to LY (0xFF44) each end in a panic: no value is returned or
\* stored and no operation follows.  No bus access changes LY, which
\* changes through Video::tick only.
C21_ProhibitedAccessIsFatal ==
    [][/\ ~call.panicked
       /\ IsFatalAccess =>
            /\ video'.current_line = video.current_line
            /\ call'.address \in \hE000 .. \hFDFF => call'.panicked
            /\ (call'.op = "read" /\ call'.address \in \hFEA0 .. \hFEFF) => call'.panicked
            /\ (call'.op = "write" /\ call'.address = \hFF44) => call'.panicked
            /\ call'.panicked => OnlyBilled /\ (call'.op = "read" => call'.value = -1)
       /\ video'.current_line # video.current_line => call'.op = "tick"]_vars

\* a write to LY panicked after the PPU had moved LY to 1
C21_Witness ==
    /\ call.op = "write" /\ call.address = \hFF44 /\ call.value = \h00 /\ call.panicked
    /\ video.current_line = 1

(***************************************************************************)
(* cartridge.rs: MBC1                                                      *)
(***************************************************************************)
\* the ROM file is an input: 128 banks of 16 KiB (the largest MBC1 file), whose
\* byte at `offset` is the image number plus the offset plus the offset's bank
\* (mod 256), so that equal addresses of different banks hold different bytes
RomBanks == 128
rom_data(rom, offset) == (rom + offset + offset \div \h4000) % 256

\* vec![0x00; 0x2000 * 4]
RamSize == 32768

\* ram_data is kept as the function from the offsets written so far to their
\* bytes; every other byte is still the 0x00 of MBC1::new
ram_byte(c, offset) ==
    IF offset \in DOMAIN c.ram_data THEN c.ram_data[offset] ELSE 0

ram_store(c, offset, value) ==
    [c EXCEPT !.ram_data = [o \in DOMAIN @ \cup {offset} |->
                               IF o = offset THEN value ELSE @[o]]]

MBC1_new(rom) ==
    [rom_data |-> rom, ram_data |-> <<>>, rom_bank |-> 1, ram_bank |-> 0,
     ram_enabled |-> FALSE, banking_mode |-> "UseRom"]

\* MBC1::read: the set of outcomes [panicked, value].  `0x4000 * (rom_bank as
\* u16)` is a u16 product: from bank 4 on it overflows, which panics in a build
\* with overflow checks and wraps modulo 2^16 in a build without.  An index
\* outside a Vec panics.
MBC1_read(c, address) ==
    IF address \in \h0000 .. \h3FFF
    THEN {[panicked |-> FALSE, value |-> rom_data(c.rom_data, address)]}
    ELSE IF address \in \h4000 .. \h7FFF
    THEN LET normalized_addr == address - \h4000
             product == \h4000 * c.rom_bank
             addr == (product % 65536) + normalized_addr
             wrapped == IF addr < RomBanks * \h4000
                        THEN [panicked |-> FALSE, value |-> rom_data(c.rom_data, addr)]
                        ELSE [panicked |-> TRUE, value |-> -1]
         IN  IF product < 65536 THEN {wrapped}
             ELSE {[panicked |-> TRUE, value |-> -1], wrapped}
    ELSE IF address \in \hA000 .. \hBFFF
    THEN IF ~c.ram_enabled THEN {[panicked |-> FALSE, value |-> \hFF]}
         ELSE LET addr == \h4000 * c.ram_bank + (address - \hA000)
              IN  IF addr < RamSize
                  THEN {[panicked |-> FALSE, value |-> ram_byte(c, addr)]}
                  ELSE {[panicked |-> TRUE, value |-> -1]}
    ELSE {[panicked |-> TRUE, value |-> -1]}

\* MBC1::write: the new cartridge and whether the write panicked
MBC1_write(c, address, value) ==
    IF address \in \h0000 .. \h1FFF
    THEN [cartridge |-> [c EXCEPT !.ram_enabled = (value % 16 = \h0A)], panicked |-> FALSE]
    ELSE IF address \in \h2000 .. \h3FFF
    THEN IF value > \h1F THEN [cartridge |-> c, panicked |-> TRUE]
         ELSE [cartridge |-> [c EXCEPT !.rom_bank = IF value \in {\h00, \h20, \h40, \h60}
                                                    THEN value + 1 ELSE value],
               panicked |-> FALSE]
    ELSE IF address \in \h4000 .. \h5FFF
    THEN IF c.banking_mode = "UseRom"
         THEN [cartridge |-> [c EXCEPT !.rom_bank =
                                 set_bit_mut(set_bit_mut(@, 5, get_bit(value, 0)),
                                             6, get_bit(value, 1))],
               panicked |-> FALSE]
         ELSE [cartridge |-> [c EXCEPT !.ram_bank = value % 4], panicked |-> FALSE]
    ELSE IF address \in \h6000 .. \h7FFF
    THEN [cartridge |-> [c EXCEPT !.banking_mode = IF value = 0 THEN "UseRom" ELSE "UseRam"],
          panicked |-> FALSE]
    ELSE IF address \in \hA000 .. \hBFFF
    THEN IF ~c.ram_enabled THEN [cartridge |-> c, panicked |-> FALSE]
         ELSE LET addr == \h4000 * c.ram_bank + (address - \hA000)
              IN  IF addr < RamSize
                  THEN [cartridge |-> ram_store(c, addr, value), panicked |-> FALSE]
                  ELSE [cartridge |-> c, panicked |-> TRUE]
    ELSE [cartridge |-> c, panicked |-> TRUE]

(***************************************************************************)
(* The MBC1 specification: reads and writes of an MBC1 cartridge in any    *)
(* order from its construction.  A panic ends the program.                 *)
(***************************************************************************)
\* cartridge accesses explored
MaxMbcOps == 5

\* the (address, value) pairs written: RAM enable, BANK1, BANK2, mode, RAM
Mbc1Writes ==
    {<<\h0000, \h0A>>, <<\h0000, \h00>>,
     <<\h2000, \h00>>, <<\h2000, \h03>>, <<\h2000, \h04>>, <<\h2000, \h1F>>, <<\h2000, \h20>>,
     <<\h4000, \h00>>, <<\h4000, \h01>>, <<\h4000, \h02>>, <<\h4000, \h03>>,
     <<\h6000, \h00>>, <<\h6000, \h01>>,
     <<\hA000, \h5A>>, <<\hBFFF, \hA5>>}

\* the addresses read
Mbc1Reads == {\h0000, \h3FFF, \h4000, \h7FFF, \hA000, \hBFFF}

InitMbc1 ==
    /\ cpu = CPU_new
    /\ video = Video_new
    /\ index = 0
    /\ dots = 0
    /\ \E rom \in {0, 7} : mmu = [MMU_new EXCEPT !.cartridge = MBC1_new(rom)]
    /\ call = [op |-> "new", address |-> 0, value |-> 0, panicked |-> FALSE]

Mbc1Read ==
    /\ ~call.panicked
    /\ index < MaxMbcOps
    /\ \E address \in Mbc1Reads :
          \E r \in MBC1_read(mmu.cartridge, address) :
             call' = [op |-> "read", address |-> address, value |-> r.value,
                      panicked |-> r.panicked]
    /\ index' = index + 1
    /\ UNCHANGED <<cpu, mmu, video, dots>>

Mbc1Write ==
    /\ ~call.panicked
    /\ index < MaxMbcOps
    /\ \E w \in Mbc1Writes :
          \E r \in {MBC1_write(mmu.cartridge, w[1], w[2])} :
             /\ mmu' = [mmu EXCEPT !.cartridge = r.cartridge]
             /\ call' = [op |-> "write", address |-> w[1], value |-> w[2],
                         panicked |-> r.panicked]
    /\ index' = index + 1
    /\ UNCHANGED <<cpu, video, dots>>

NextMbc1 == Mbc1Read \/ Mbc1Write

SpecMbc1 == InitMbc1 /\ [][NextMbc1]_vars

(***************************************************************************)
(* C22                                                                     *)
(***************************************************************************)
\* C22: after any sequence of MBC1 control-register writes the ROM bank
\* register is never 0x00, 0x20, 0x40 or 0x60.
C22_RomBankNeverZero ==
    mmu.cartridge.rom_bank \notin {\h00, \h20, \h40, \h60}

(***************************************************************************)
(* C29                                                                     *)
(***************************************************************************)
IsMbc1Read == index' = index + 1 /\ call'.op = "read"

\* C29: for every ROM bank number k the MBC1 can select (1..=0x7F) and every
\* address a in 0x4000-0x7FFF, a read of a returns the ROM file byte at offset
\* (a - 0x4000) + 0x4000 * k; a read of 0x0000-0x3FFF returns the file byte
\* at offset a.
C29_BankedRomRead ==
    [][IsMbc1Read /\ mmu.cartridge.rom_bank \in 1 .. \h7F =>
          LET c == mmu.cartridge
              a == call'.address
          IN  /\ a \in \h0000 .. \h3FFF =>
                    ~call'.panicked /\ call'.value = rom_data(c.rom_data, a)
              /\ a \in \h4000 .. \h7FFF =>
                    /\ ~call'.panicked
                    /\ call'.value = rom_data(c.rom_data, (a - \h4000) + \h4000 * c.rom_bank)]_vars

(***************************************************************************)
(* C30                                                                     *)
(***************************************************************************)
ExternalRam == \hA000 .. \hBFFF

\* the offsets of external RAM that hold a written byte before or after the step
Written == DOMAIN mmu.cartridge.ram_data \cup DOMAIN mmu'.cartridge.ram_data

\* C30: with RAM enabled, for every RAM bank b in 0..=3 and every address a in
\* 0xA000-0xBFFF, a write of v followed by a read of a returns v, the byte
\* lives at offset (a - 0xA000) + 0x2000 * b of external RAM, and the bytes of
\* the other three banks are unchanged by the write.
C30_BankedRamRoundTrip ==
    [][index' = index + 1 /\ mmu.cartridge.ram_enabled /\ call'.address \in ExternalRam =>
          LET c == mmu.cartridge
              a == call'.address
              b == c.ram_bank
          IN  /\ call'.op = "write" =>
                    /\ ~call'.panicked
                    /\ ram_byte(mmu'.cartridge, (a - \hA000) + \h2000 * b) = call'.value
                    /\ \A o \in Written :
                          o \div \h2000 # b => ram_byte(mmu'.cartridge, o) = ram_byte(c, o)
              /\ (call'.op = "read" /\ call.op = "write" /\ call.address = a) =>
                    ~call'.panicked /\ call'.value = call.value]_vars

(***************************************************************************)
(* The joypad specification: the platform delivers button events and the   *)
(* CPU writes and reads 0xFF00, in any order from power-on.                *)
(***************************************************************************)
\* bus accesses explored
MaxJoypadOps == 3

\* the bytes written to 0xFF00: directions, buttons, neither, both
JoypadSelectors == {\h20, \h10, \h30, \h00}

InitJoypad ==
    /\ cpu = CPU_new
    /\ mmu = MMU_new
    /\ video = Video_new
    /\ index = 0
    /\ dots = 0
    /\ call = [op |-> "new", value |-> 0]

\* Joypad::consume_platform_event through MMU::joypad
JoypadEvent ==
    /\ \E button \in JoypadButton, is_down \in BOOLEAN :
          mmu' = [mmu EXCEPT !.joypad_input = consume_platform_event(@, button, is_down)]
    /\ call' = [op |-> "event", value |-> 0]
    /\ UNCHANGED <<cpu, video, index, dots>>

\* MMU::write of 0xFF00
JoypadWrite ==
    /\ index < MaxJoypadOps
    /\ \E value \in JoypadSelectors :
          /\ mmu' = mmu_write(mmu, \hFF00, value)
          /\ call' = [op |-> "write", value |-> value]
    /\ index' = index + 1
    /\ UNCHANGED <<cpu, video, dots>>

\* MMU::read of 0xFF00
JoypadRead ==
    /\ index < MaxJoypadOps
    /\ \E r \in {mmu_read(mmu, \hFF00)} :
          /\ mmu' = r.mmu
          /\ call' = [op |-> "read", value |-> r.value]
    /\ index' = index + 1
    /\ UNCHANGED <<cpu, video, dots>>

NextJoypad == JoypadEvent \/ JoypadWrite \/ JoypadRead

SpecJoypad == InitJoypad /\ [][NextJoypad]_vars

(***************************************************************************)
(* C23                                                                     *)
(***************************************************************************)
\* bits 0..3 of `value` are the inverted states of the four buttons
Inverted(value, b0, b1, b2, b3) ==
    /\ get_bit(value, 0) = ~b0
    /\ get_bit(value, 1) = ~b1
    /\ get_bit(value, 2) = ~b2
    /\ get_bit(value, 3) = ~b3

\* C23: after a write of the selector at 0xFF00, a read of 0xFF00 returns in
\* bits 0..3 the inverted state of the selected group: Right/Left/Up/Down with
\* bit 4 written 0, A/B/Select/Start with bit 5 written 0; a bit is 0 exactly
\* when its button is pressed.
C23_JoypadReadsSelectedGroup ==
    [][index' = index + 1 /\ call'.op = "read" =>
          LET j == mmu.joypad_input
          IN  /\ (j.direction_buttons /\ ~j.select_buttons) =>
                    Inverted(call'.value, j.right, j.left, j.up, j.down)
              /\ (j.select_buttons /\ ~j.direction_buttons) =>
                    Inverted(call'.value, j.a, j.b, j.select, j.start)]_vars

(***************************************************************************)
(* The instruction specification: CPU::tick on short programs of four      *)
(* families (packed-BCD arithmetic, CB bit operations, register pairs and  *)
(* the stack, branches), with interrupts off.  call.entry is the state the *)
(* last tick started from.                                                 *)
(***************************************************************************)
\* CPU::tick calls explored by the instruction specification
MaxAluSteps == 5

\* the valid packed-BCD bytes
Bcd == {tens * 16 + units : tens \in 0 .. 9, units \in 0 .. 9}

\* the words the register pairs are loaded with: every low byte under three high bytes
PairWords == {high * 256 + low : high \in {\h00, \h12, \hFF}, low \in 0 .. 255}

\* the <<opcode, operand>> pairs the program of a family may hold at step i
AluProgram(family, i) ==
    CASE family = "bcd" ->
            \* LD A,a ; ADD A,b or SUB b ; DAA
            CASE i = 0 -> {<<\h3E, a>> : a \in Bcd}
              [] i = 1 -> {<<opcode, b>> : opcode \in {\hC6, \hD6}, b \in Bcd}
              [] i = 2 -> {<<\h27, 0>>}
              [] OTHER -> {<<\h00, 0>>}
      [] family = "bits" ->
            \* LD BC,v:v ; PUSH BC ; LD HL,0xFFFC ; SET n or SWAP ; RES n or SWAP,
            \* on B and on (HL)
            CASE i = 0 -> {<<\h01, v * 257>> : v \in 0 .. 255}
              [] i = 1 -> {<<\hC5, 0>>}
              [] i = 2 -> {<<\h21, \hFFFC>>}
              [] i = 3 -> {<<\hCB, \hC0 + 8 * n + col>> : n \in 0 .. 7, col \in {0, 6}}
                            \cup {<<\hCB, \h30>>, <<\hCB, \h36>>}
              [] i = 4 -> {<<\hCB, \h80 + 8 * n + col>> : n \in 0 .. 7, col \in {0, 6}}
                            \cup {<<\hCB, \h30>>, <<\hCB, \h36>>}
              [] OTHER -> {<<\h00, 0>>}
      [] family = "pairs" ->
            \* LD rr,x ; PUSH rr ; POP AF ; PUSH AF ; POP rr
            CASE i = 0 -> {<<opcode, x>> : opcode \in {\h01, \h11, \h21}, x \in PairWords}
              [] i = 1 -> {<<opcode, 0>> : opcode \in {\hC5, \hD5, \hE5}}
              [] i = 2 -> {<<\hF1, 0>>}
              [] i = 3 -> {<<\hF5, 0>>}
              [] i = 4 -> {<<opcode, 0>> : opcode \in {\hC1, \hD1, \hE1}}
              [] OTHER -> {<<\h00, 0>>}
      [] family = "branches" ->
            \* two ADD/SUB that set Z and C, then two jumps, calls, returns, RST or CB
            CASE i \in {0, 1} -> {<<opcode, v>> : opcode \in {\hC6, \hD6}, v \in {\h00, \h01, \hFF}}
              [] i \in {2, 3} ->
                    {<<opcode, e>> : opcode \in {\h18, \h20, \h28, \h30, \h38}, e \in {\h02, \hFE}}
                    \cup {<<opcode, \h0150>> : opcode \in {\hC2, \hCA, \hD2, \hDA, \hC3,
                                                           \hC4, \hCC, \hD4, \hDC, \hCD}}
                    \cup {<<opcode, 0>> : opcode \in {\hC0, \hC8, \hD0, \hD8, \hC9, \h00,
                                                       \hC7, \hEF}}
                    \cup {<<\hCB, \h37>>}
              [] OTHER -> {<<\h00, 0>>}

InitAlu ==
    /\ cpu = CPU_new
    /\ mmu = MMU_new
    /\ video = Video_new
    /\ index = 0
    /\ dots = 0
    /\ \E family \in {"bcd", "bits", "pairs", "branches"} :
          call = [family |-> family, opcode |-> -1, operand |-> 0, elapsed_cycles |-> 0,
                  entry |-> [cpu |-> CPU_new, high_ram |-> MMU_new.high_ram]]

\* one CPU::tick; a program returns only to a pushed address
AluTick ==
    /\ index < MaxAluSteps
    /\ \E instruction \in AluProgram(call.family, index) :
          /\ instruction[1] \in {\hC0, \hC8, \hD0, \hD8, \hC9} => cpu.sp < StackTop
          /\ \E r \in {CPU_tick([cpu |-> cpu, mmu |-> mmu], instruction[1], instruction[2])} :
                /\ cpu' = r.cpu
                /\ mmu' = r.mmu
                /\ call' = [call EXCEPT !.opcode = instruction[1],
                                        !.operand = instruction[2],
                                        !.elapsed_cycles = r.elapsed_cycles,
                                        !.entry = [cpu |-> cpu, high_ram |-> mmu.high_ram]]
    /\ index' = index + 1
    /\ UNCHANGED <<video, dots>>

NextAlu == AluTick

SpecAlu == InitAlu /\ [][NextAlu]_vars

\* the opcodes of JR cc, JP cc, CALL cc and RET cc
ConditionalOpcodes ==
    {\h20, \h28, \h30, \h38, \hC2, \hCA, \hD2, \hDA, \hC4, \hCC, \hD4, \hDC,
     \hC0, \hC8, \hD0, \hD8}

\* the condition of the last conditional instruction, against the flags at its entry
ConditionOnEntry ==
    LET zero == (call.entry.cpu.flag_register \div 128) % 2 = 1
        carry == (call.entry.cpu.flag_register \div 16) % 2 = 1
    IN  CASE call.opcode \in {\h20, \hC2, \hC4, \hC0} -> ~zero
          [] call.opcode \in {\h28, \hCA, \hCC, \hC8} -> zero
          [] call.opcode \in {\h30, \hD2, \hD4, \hD0} -> ~carry
          [] call.opcode \in {\h38, \hDA, \hDC, \hD8} -> carry

\* C24: a conditional JR, JP, CALL or RET costs the branch-taken figure exactly
\* when its condition held against the flags at entry; an unconditional
\* instruction costs the not-taken figure and a CB-prefixed one the extended
\* figure; the took-branch flag after a tick tells of that tick's instruction
\* only, so a taken branch never changes the cost of a later instruction
C24_BranchCostIffConditionOnEntry ==
    call.opcode # -1 =>
        /\ call.opcode \in ConditionalOpcodes =>
              /\ call.elapsed_cycles = IF ConditionOnEntry
                                       THEN NORMAL_OPCODE_CYCLES_BRANCED(call.opcode)
                                       ELSE NORMAL_OPCODE_CYCLES(call.opcode)
              /\ cpu.did_take_conditional_branch = ConditionOnEntry
        /\ call.opcode = \hCB =>
              /\ call.elapsed_cycles = CB_OPCODE_CYCLES(call.operand)
              /\ ~cpu.did_take_conditional_branch
        /\ call.opcode \notin ConditionalOpcodes \cup {\hCB} =>
              /\ call.elapsed_cycles = NORMAL_OPCODE_CYCLES(call.opcode)
              /\ ~cpu.did_take_conditional_branch

\* a NOP that follows a taken CALL NZ has cost 1
C24_Witness ==
    /\ call.opcode = \h00
    /\ call.elapsed_cycles = 1
    /\ call.entry.cpu.did_take_conditional_branch
    /\ call.entry.cpu.pc = \h0150
    /\ call.entry.cpu.sp = StackTop - 2

\* the little-endian word at an address of high RAM
WordAt(high_ram, address) == high_ram[address] + 256 * high_ram[address + 1]

\* the register pair an LD rr,d16, POP rr or PUSH rr names
PairNamed(opcode) ==
    CASE opcode \in {\h01, \hC1, \hC5} -> "BC"
      [] opcode \in {\h11, \hD1, \hD5} -> "DE"
      [] opcode \in {\h21, \hE1, \hE5} -> "HL"
      [] opcode \in {\hF1, \hF5} -> "AF"
      [] OTHER -> "none"

\* the word the last tick wrote to a pair: the operand of LD rr,d16, the word
\* POP rr found on the stack
WordWritten ==
    IF call.opcode \in {\h01, \h11, \h21}
    THEN call.operand
    ELSE WordAt(call.entry.high_ram, call.entry.cpu.sp)

\* C25: when a tick writes x to a register pair (LD rr,d16 or POP rr) and the
\* next tick reads the pair (PUSH rr), the word read is x for BC, DE and HL and
\* x & 0xFFF0 for AF
C25_RegisterPairRoundTrip ==
    [][(/\ call.opcode \in {\h01, \h11, \h21, \hC1, \hD1, \hE1, \hF1}
        /\ call'.opcode \in {\hC5, \hD5, \hE5, \hF5}
        /\ PairNamed(call'.opcode) = PairNamed(call.opcode))
       => WordAt(mmu'.high_ram, cpu'.sp) =
             IF PairNamed(call.opcode) = "AF"
             THEN WordWritten - (WordWritten % 16)
             ELSE WordWritten]_vars

\* POP AF of 0x12FF, then PUSH AF has pushed 0x12F0
C25_Witness ==
    /\ call.opcode = \hF5
    /\ call.entry.cpu.a = \h12
    /\ call.entry.cpu.flag_register = \hFF
    /\ call.entry.cpu.sp = StackTop
    /\ WordAt(mmu.high_ram, cpu.sp) = \h12F0

\* the number a packed-BCD byte encodes, and the packed-BCD byte of a number below 100
Decimal(byte) == (byte \div 16) * 10 + (byte % 16)
Packed(number) == (number \div 10) * 16 + (number % 10)

\* C26: with A = a and b valid packed-BCD bytes, ADD A,b then DAA leaves the
\* packed-BCD byte of (a + b) mod 100 in A with C set exactly when a + b >= 100,
\* and SUB b then DAA the packed-BCD byte of (a - b) mod 100 with C set exactly
\* when a < b; after the DAA Z tells whether A is 0 and H is clear
C26_DaaAfterAddSubIsBcd ==
    [][(/\ call.opcode \in {\hC6, \hD6}
        /\ call'.opcode = \h27
        /\ call.entry.cpu.a \in Bcd
        /\ call.operand \in Bcd)
       => LET a == Decimal(call.entry.cpu.a)
              b == Decimal(call.operand)
              flags == cpu'.flag_register
          IN  /\ call.opcode = \hC6 =>
                    /\ cpu'.a = Packed((a + b) % 100)
                    /\ ((flags \div 16) % 2 = 1) = (a + b >= 100)
              /\ call.opcode = \hD6 =>
                    /\ cpu'.a = Packed((a + 100 - b) % 100)
                    /\ ((flags \div 16) % 2 = 1) = (a < b)
              /\ ((flags \div 128) % 2 = 1) = (cpu'.a = 0)
              /\ (flags \div 32) % 2 = 0]_vars

\* 0x45 + 0x55: DAA has turned 0x9A into 0x00 with C and Z set
C26_Witness ==
    /\ call.opcode = \h27
    /\ call.entry.cpu.a = \h9A
    /\ cpu.a = \h00
    /\ cpu.flag_register = \h90

\* 0x12 - 0x34: DAA has turned 0xDE into 0x78 with C set (a borrow in both digits)
C26_WitnessSub ==
    /\ call.opcode = \h27
    /\ call.entry.cpu.a = \hDE
    /\ cpu.a = \h78
    /\ (cpu.flag_register \div 16) % 2 = 1

\* the byte a CB instruction's operand holds: a register, or for column 6 the
\* byte HL points to
CbOperand(c, high_ram, cb_opcode) ==
    CASE cb_opcode % 8 = 0 -> c.b
      [] cb_opcode % 8 = 1 -> c.c
      [] cb_opcode % 8 = 2 -> c.d
      [] cb_opcode % 8 = 3 -> c.e
      [] cb_opcode % 8 = 4 -> c.h
      [] cb_opcode % 8 = 5 -> c.l
      [] cb_opcode % 8 = 6 -> high_ram[c.h * 256 + c.l]
      [] cb_opcode % 8 = 7 -> c.a

\* a SET n whose operand held v has run and a RES n on the same operand runs now
SetThenRes ==
    /\ call.opcode = \hCB
    /\ call.operand \in \hC0 .. \hFF
    /\ call'.opcode = \hCB
    /\ call'.operand = call.operand - \h40

\* C27 as stated: SET n on an operand holding v, then RES n on the same
\* operand, returns the operand to v
C27_SetThenResReturnsV ==
    [][SetThenRes =>
          CbOperand(cpu', mmu'.high_ram, call'.operand)
             = CbOperand(call.entry.cpu, call.entry.high_ram, call.operand)]_vars

\* C27, amended: SET n on an operand holding v, then RES n on the same operand,
\* leaves the operand holding v with bit n cleared, which is v exactly when
\* bit n of v was 0
C27_SetThenResClearsBit ==
    [][SetThenRes =>
          LET v == CbOperand(call.entry.cpu, call.entry.high_ram, call.operand)
              n == (call.operand \div 8) % 8
              cleared == IF (v \div 2^n) % 2 = 1 THEN v - 2^n ELSE v
          IN  /\ CbOperand(cpu', mmu'.high_ram, call'.operand) = cleared
              /\ (cleared = v) = ((v \div 2^n) % 2 = 0)]_vars

\* SET 3,(HL) on 0x08 left 0x08 and RES 3,(HL) has left 0x00
C27_Witness ==
    /\ call.opcode = \hCB
    /\ call.operand = \h9E
    /\ cpu.b = \h08
    /\ call.entry.high_ram[\hFFFC] = \h08
    /\ mmu.high_ram[\hFFFC] = \h00

\* the byte with the nibbles of v exchanged
Exchanged(v) == (v % 16) * 16 + (v \div 16)

\* a SWAP has run (call) or runs now (call')
IsSwap(c) == c.opcode = \hCB /\ c.operand \in \h30 .. \h37

\* C28: SWAP replaces the operand by the byte with its nibbles exchanged and
\* leaves Z set exactly when that byte is 0 and N, H, C clear; a second SWAP on
\* the same operand returns it to the byte the first one found
C28_SwapExchangesNibbles ==
    [][/\ IsSwap(call') =>
            LET v == CbOperand(cpu, mmu.high_ram, call'.operand)
                result == CbOperand(cpu', mmu'.high_ram, call'.operand)
            IN  /\ result = Exchanged(v)
                /\ cpu'.flag_register \div 16 = IF result = 0 THEN 8 ELSE 0
       /\ (IsSwap(call) /\ IsSwap(call') /\ call'.operand = call.operand) =>
            CbOperand(cpu', mmu'.high_ram, call'.operand)
               = CbOperand(call.entry.cpu, call.entry.high_ram, call.operand)]_vars

\* SWAP (HL) on 0xAB left 0xBA and a second SWAP (HL) has left 0xAB
C28_Witness ==
    /\ call.opcode = \hCB
    /\ call.operand = \h36
    /\ cpu.b = \hAB
    /\ call.entry.high_ram[\hFFFC] = \hBA
    /\ mmu.high_ram[\hFFFC] = \hAB
    /\ cpu.flag_register \div 16 = 0

(***************************************************************************)
(* C31, C32                                                                *)
(***************************************************************************)
\* the five low bits of a BANK1 write, 0 promoted to 1
Primary(value) == IF value % 32 = 0 THEN 1 ELSE value % 32

\* C31: in ROM-banking mode a write of u to 0x4000-0x5FFF puts u & 3 in bank
\* bits 5..6 and leaves bank bits 0..4 unchanged, and a write of p to
\* 0x2000-0x3FFF puts p & 0x1F (0 promoted to 1) in bank bits 0..4 and leaves
\* bank bits 5..6 unchanged, so that after both writes, in either order, the
\* bank is ((u & 3) << 5) | p'
C31_BankCombinesTwoRegisters ==
    [][(/\ call'.op = "write"
        /\ ~call'.panicked
        /\ mmu.cartridge.banking_mode = "UseRom")
       => /\ call'.address \in \h4000 .. \h5FFF =>
                /\ (mmu'.cartridge.rom_bank \div 32) % 4 = call'.value % 4
                /\ mmu'.cartridge.rom_bank % 32 = mmu.cartridge.rom_bank % 32
          /\ call'.address \in \h2000 .. \h3FFF =>
                /\ mmu'.cartridge.rom_bank % 32 = Primary(call'.value)
                /\ (mmu'.cartridge.rom_bank \div 32) % 4
                      = (mmu.cartridge.rom_bank \div 32) % 4]_vars

\* C32: a write of any byte to 0x2000-0x3FFF is accepted and selects the
\* primary bank of its five low bits
C32_Bank1WriteAccepted ==
    [][(call'.op = "write" /\ call'.address \in \h2000 .. \h3FFF)
       => /\ ~call'.panicked
          /\ mmu'.cartridge.rom_bank % 32 = Primary(call'.value)]_vars

(***************************************************************************)
(* The helper specification: set_bit_mut and set_bit of utils.rs applied   *)
(* to every byte, bit index and bit value.                                 *)
(***************************************************************************)
InitUtils ==
    /\ cpu = CPU_new
    /\ mmu = MMU_new
    /\ video = Video_new
    /\ index = 0
    /\ dots = 0
    /\ \E value \in 0 .. 255 : \E position \in 0 .. 7 : \E bit_value \in BOOLEAN :
          call = [op |-> "none", value |-> value, bit |-> position, bit_value |-> bit_value,
                  result |-> value]

\* set_bit_mut(&mut value, bit, bit_value): result is what value holds afterwards
UtilsSetBitMut ==
    /\ call.op = "none"
    /\ call' = [call EXCEPT !.op = "set_bit_mut",
                            !.result = set_bit_mut(call.value, call.bit, call.bit_value)]
    /\ UNCHANGED <<cpu, mmu, video, index, dots>>

\* set_bit(value, bit, bit_value): result is what it returns
UtilsSetBit ==
    /\ call.op = "none"
    /\ call' = [call EXCEPT !.op = "set_bit",
                            !.result = set_bit(call.value, call.bit, call.bit_value)]
    /\ UNCHANGED <<cpu, mmu, video, index, dots>>

NextUtils == UtilsSetBitMut \/ UtilsSetBit

SpecUtils == InitUtils /\ [][NextUtils]_vars

\* C37: set_bit_mut leaves, and set_bit returns, the byte whose bit n equals b
\* and whose other bits are those of v, so the two agree on every input
C37_SetBitMutIsSetBit ==
    call.op \in {"set_bit_mut", "set_bit"} =>
        LET weight == 2^call.bit
            old == (call.value \div weight) % 2
            new == IF call.bit_value THEN 1 ELSE 0
        IN  call.result = call.value + (new - old) * weight

(***************************************************************************)
(* C38                                                                     *)
(***************************************************************************)
\* C38: after every machine cycle ticked with the timer enabled the prescaler
\* count is below the divider TAC selects, and the machine cycle (4 T-cycles,
\* fewer than any divider) has incremented TIMA at most once, whatever was
\* written to TAC and DIV before
C38_IncrementsAtLeastDividerApart ==
    [][(IsTimerTick /\ Bit(mmu.timer.timer_control, 2) = 1) =>
        LET t == mmu.timer
        IN  /\ mmu'.timer.clock_counter < TacDivider(t.timer_control)
            /\ mmu'.timer.timer_counter \in
                  {t.timer_counter,
                   IF t.timer_counter = 255 THEN t.timer_modulo ELSE t.timer_counter + 1}]_vars

(***************************************************************************)
(* C39                                                                     *)
(***************************************************************************)
\* C39: when maybe_process_interrupts has returned, a CPU that is still halted
\* has serviced nothing (the cycle count returned is 0), and a CPU that has
\* serviced an interrupt has IME false
C39_TickAssertionsHold ==
    call.phase = "line262" =>
        /\ cpu.halted => call.interrupt_cycles = 0
        /\ call.interrupt_cycles # 0 => ~cpu.interrupts_enabled

\* a halted CPU with IME set has serviced an interrupt: 5 cycles, awake, IME off
C39_Witness ==
    /\ call.phase = "line262"
    /\ call.entry.cpu.halted
    /\ call.entry.cpu.interrupts_enabled
    /\ call.interrupt_cycles = 5
    /\ ~cpu.halted
    /\ ~cpu.interrupts_enabled

(***************************************************************************)
(* The halt specification: the program writes LCDC, enables the VBlank     *)
(* source in IE (LD A,0x01; LDH (0xFF),A) and executes HALT; Gameboy::tick *)
(* then runs for a frame, with NOPs after the HALT.  A panic ends the      *)
(* program: no action follows it.                                          *)
(***************************************************************************)
\* orchestrator steps explored (the program, the dots up to VBlank and a bit)
MaxHaltSteps == 65700

\* LcdControlBit
BgWindowEnable == 0
WindowEnable == 5
LcdEnable == 7

\* Video::draw_scanline reaches draw_window_for_current_line, whose body is
\* `todo!("Draw window")`
draw_scanline_panics(v) ==
    /\ get_bit(v.lcd_control, LcdEnable)
    /\ get_bit(v.lcd_control, BgWindowEnable)
    /\ get_bit(v.lcd_control, WindowEnable)

\* the Mode3DrawPixels arm of Video::tick, which calls draw_scanline
Video_tick_panics(v) ==
    /\ v.ppu_mode = "Mode3DrawPixels"
    /\ v.dot_in_current_mode + 1 >= DOTS_PER_MODE3
    /\ draw_scanline_panics(v)

\* whether one of the Video::tick calls of the loop `for _ in 0..cycles` panics
RECURSIVE video_ticks_panic(_, _)
video_ticks_panic(v, cycles) ==
    IF cycles = 0 THEN FALSE
    ELSE Video_tick_panics(v) \/ video_ticks_panic(Video_tick(v).video, cycles - 1)

\* the values the program writes to LCDC: background only; window without
\* background; background and window
LcdcValues == {\h81, \hA0, \hA1}

\* the instruction bytes at the program counter in step number i
HaltProgram(i) ==
    CASE i = 0 -> <<\h3E, \h01>>
      [] i = 1 -> <<\hE0, \hFF>>
      [] i = 2 -> <<\h76, 0>>
      [] OTHER -> <<\h00, 0>>

\* The call record of this specification: entry is the CPU and the PPU as the
\* step found them, cycles what CPU::tick returned, panicked whether the step
\* panicked, and halted_steps the number of consecutive steps that found the CPU
\* halted.
InitHalt ==
    /\ cpu = CPU_new
    /\ mmu = MMU_new
    /\ video = Video_new
    /\ index = 0
    /\ dots = 0
    /\ call = [op |-> "new", entry |-> [cpu |-> CPU_new, video |-> Video_new],
               cycles |-> 0, panicked |-> FALSE, halted_steps |-> 0]

\* the program's write of LCDC before its first instruction
HaltWriteRegister ==
    /\ call.op = "new"
    /\ \E value \in LcdcValues : video' = Video_write_register(video, \hFF40, value)
    /\ call' = [call EXCEPT !.op = "write_register"]
    /\ UNCHANGED <<cpu, mmu, index, dots>>

\* Gameboy::tick; a panic in Video::tick leaves the PPU as the step found it
HaltTick ==
    /\ call.op # "new"
    /\ ~call.panicked
    /\ index < MaxHaltSteps
    /\ \E c \in {CPU_tick([cpu |-> cpu, mmu |-> mmu],
                          HaltProgram(index)[1], HaltProgram(index)[2])} :
          /\ call' = [op |-> "tick", entry |-> [cpu |-> cpu, video |-> video],
                      cycles |-> c.cycles,
                      panicked |-> video_ticks_panic(video, c.cycles),
                      halted_steps |-> IF cpu.halted THEN call.halted_steps + 1 ELSE 0]
          /\ IF video_ticks_panic(video, c.cycles)
             THEN /\ cpu' = c.cpu
                  /\ mmu' = c.mmu
                  /\ UNCHANGED <<video, dots>>
             ELSE \E r \in {tick_after_cpu(c, video)} :
                     /\ cpu' = r.cpu
                     /\ mmu' = r.mmu
                     /\ video' = r.video
                     /\ dots' = dots + r.ticks
    /\ index' = index + 1

NextHalt == HaltWriteRegister \/ HaltTick

SpecHalt == InitHalt /\ [][NextHalt]_vars

\* HaltTick as the scheduler sees it: its guard and the step counter.  HaltTick
\* is enabled exactly when its guard holds, and every HaltTick step advances
\* index.
TickScheduled ==
    /\ call.op # "new"
    /\ ~call.panicked
    /\ index < MaxHaltSteps
    /\ index' = index + 1

\* the host's stepping loop keeps calling Gameboy::tick for as long as the
\* program runs
SpecHaltLive == SpecHalt /\ WF_index(TickScheduled)

(***************************************************************************)
(* C36                                                                     *)
(***************************************************************************)
\* the step took the PPU from DrawPixels over the end of the mode
LeftDrawPixels ==
    /\ call.op = "tick"
    /\ call.entry.video.ppu_mode = "Mode3DrawPixels"
    /\ call.entry.video.dot_in_current_mode + call.cycles >= DOTS_PER_MODE3

\* C36: when the DrawPixels -> HBlank transition rasterizes a line with the
\* LCD, the background and the window enabled (LCDC bits 7, 0 and 5), the
\* rasterization completes and the PPU enters HBlank: enabling the window is
\* never fatal.
C36_WindowLineRasterizes ==
    LeftDrawPixels /\ draw_scanline_panics(call.entry.video)
        => ~call.panicked /\ video.ppu_mode = "Mode0HorizontalBlank"

(***************************************************************************)
(* C40                                                                     *)
(***************************************************************************)
\* C40: a CPU that is halted while the VBlank source is enabled in IE
\* eventually leaves the halted state under continued Gameboy::tick.
C40_HaltedCpuWakesOnVBlank ==
    (cpu.halted /\ is_interrupt_enabled(mmu, VBlank)) ~> ~cpu.halted

(***************************************************************************)
(* The flag specification: one CPU::tick of an arithmetic, logic or bit    *)
(* test instruction from every accumulator value under both carries, and   *)
(* of ADD SP,e or LD HL,SP+e with every offset byte.                       *)
(***************************************************************************)
\* the flag bytes an instruction may find: all clear, all set
FlagBytes == {\h00, \hF0}

\* the bytes whose nibbles are both at or next to a carry or sign boundary
EdgeBytes ==
    {high * 16 + low : high \in {\h0, \h1, \h7, \h8, \hE, \hF},
                       low \in {\h0, \h1, \h7, \h8, \hE, \hF}}

\* the stack pointers ADD SP,e and LD HL,SP+e start from: the edge bytes as
\* low byte under three high bytes
SpWords == {high * 256 + low : high \in {\h00, \h7F, \hFF}, low \in EdgeBytes}

\* the <<opcode, operand>> pairs of a family: ADD, ADC, SUB, SBC, AND, XOR, OR
\* and CP with the edge bytes as immediate, INC and DEC of A and B, BIT n of B
\* and A; ADD SP,e and LD HL,SP+e with every offset byte
FlagsProgram(family) ==
    CASE family = "accumulator" ->
            {<<opcode, v>> : opcode \in {\hC6, \hCE, \hD6, \hDE, \hE6, \hEE, \hF6, \hFE},
                             v \in EdgeBytes}
            \cup {<<opcode, 0>> : opcode \in {\h04, \h05, \h3C, \h3D}}
            \cup {<<\hCB, \h40 + 8 * n + col>> : n \in 0 .. 7, col \in {0, 7}}
      [] family = "stack_pointer" ->
            {<<opcode, e>> : opcode \in {\hE8, \hF8}, e \in 0 .. 255}

\* the registers the instruction finds; B holds the complement of A
InitFlags ==
    /\ mmu = MMU_new
    /\ video = Video_new
    /\ index = 0
    /\ dots = 0
    /\ \E family \in {"accumulator", "stack_pointer"} :
          /\ call = [family |-> family, opcode |-> -1, operand |-> 0, entry |-> CPU_new]
          /\ \E flags \in FlagBytes :
                IF family = "accumulator"
                THEN \E a \in 0 .. 255 :
                        cpu = [CPU_new EXCEPT !.a = a, !.b = BitNot(a), !.flag_register = flags]
                ELSE \E sp \in SpWords :
                        cpu = [CPU_new EXCEPT !.sp = sp, !.flag_register = flags]

\* one CPU::tick
FlagsTick ==
    /\ call.opcode = -1
    /\ \E instruction \in FlagsProgram(call.family) :
          \E r \in {CPU_tick([cpu |-> cpu, mmu |-> mmu], instruction[1], instruction[2])} :
                /\ cpu' = r.cpu
                /\ mmu' = r.mmu
                /\ call' = [call EXCEPT !.opcode = instruction[1],
                                        !.operand = instruction[2],
                                        !.entry = cpu]
    /\ index' = index + 1
    /\ UNCHANGED <<video, dots>>

NextFlags == FlagsTick

SpecFlags == InitFlags /\ [][NextFlags]_vars

(***************************************************************************)
(* C33                                                                     *)
(***************************************************************************)
\* the flags as F packs them
FlagsAre(c, z, n, h, carry) ==
    /\ get_bit(c.flag_register, 7) = z
    /\ get_bit(c.flag_register, 6) = n
    /\ get_bit(c.flag_register, 5) = h
    /\ get_bit(c.flag_register, 4) = carry

\* the flag table of the arithmetic and logic instructions on the accumulator
AluTable(opcode, a, v, c, carry_in) ==
    LET out == c.a
    IN  CASE opcode = \hC6 ->
                /\ out = (a + v) % 256
                /\ FlagsAre(c, out = 0, FALSE, (a % 16) + (v % 16) > \hF, a + v > \hFF)
          [] opcode = \hCE ->
                /\ out = (a + v + carry_in) % 256
                /\ FlagsAre(c, out = 0, FALSE, (a % 16) + (v % 16) + carry_in > \hF,
                            a + v + carry_in > \hFF)
          [] opcode = \hD6 ->
                /\ out = (a - v) % 256
                /\ FlagsAre(c, out = 0, TRUE, (a % 16) < (v % 16), a < v)
          [] opcode = \hDE ->
                /\ out = (a - v - carry_in) % 256
                /\ FlagsAre(c, out = 0, TRUE, (a % 16) < (v % 16) + carry_in,
                            a < v + carry_in)
          [] opcode = \hFE ->
                /\ out = a
                /\ FlagsAre(c, a = v, TRUE, (a % 16) < (v % 16), a < v)
          [] opcode = \hE6 ->
                /\ \A i \in 0 .. 7 : get_bit(out, i) = (get_bit(a, i) /\ get_bit(v, i))
                /\ FlagsAre(c, out = 0, FALSE, TRUE, FALSE)
          [] opcode = \hF6 ->
                /\ \A i \in 0 .. 7 : get_bit(out, i) = (get_bit(a, i) \/ get_bit(v, i))
                /\ FlagsAre(c, out = 0, FALSE, FALSE, FALSE)
          [] opcode = \hEE ->
                /\ \A i \in 0 .. 7 : get_bit(out, i) = (get_bit(a, i) # get_bit(v, i))
                /\ FlagsAre(c, out = 0, FALSE, FALSE, FALSE)

\* C33: the result and the Z, N, H, C flags after ADD, ADC, SUB, SBC, CP, AND,
\* OR and XOR of every accumulator value with an operand under either
\* carry, and after INC and DEC, are those of the flag table (ADC and SBC
\* count the carry in both H and C, CP leaves A, INC and DEC leave C), and
\* BIT n sets Z to the complement of bit n, clears N, sets H and leaves C and
\* the operand.
C33_FlagTable ==
    call.family = "accumulator" /\ call.opcode # -1 =>
        LET entry == call.entry
            carry == get_bit(entry.flag_register, 4)
            target == IF call.opcode \in {\h04, \h05}
                         \/ (call.opcode = \hCB /\ call.operand % 8 = 0)
                      THEN "b" ELSE "a"
        IN  CASE call.opcode \in {\h04, \h3C} ->
                    /\ cpu[target] = (entry[target] + 1) % 256
                    /\ FlagsAre(cpu, cpu[target] = 0, FALSE, cpu[target] % 16 = 0, carry)
              [] call.opcode \in {\h05, \h3D} ->
                    /\ cpu[target] = (entry[target] - 1) % 256
                    /\ FlagsAre(cpu, cpu[target] = 0, TRUE, cpu[target] % 16 = \hF, carry)
              [] call.opcode = \hCB ->
                    /\ cpu.a = entry.a
                    /\ cpu.b = entry.b
                    /\ FlagsAre(cpu, ~get_bit(entry[target], (call.operand \div 8) % 8),
                                FALSE, TRUE, carry)
              [] OTHER ->
                    /\ AluTable(call.opcode, entry.a, call.operand, cpu,
                                IF carry THEN 1 ELSE 0)
                    /\ cpu.b = entry.b

\* SBC 0x0F from A = 0x10 with the carry set: A = 0x00, Z, N and H set, C clear
C33_Witness ==
    /\ call.opcode = \hDE
    /\ call.operand = \h0F
    /\ call.entry.a = \h10
    /\ call.entry.flag_register = \hF0
    /\ cpu.a = \h00
    /\ cpu.flag_register = \hE0

(***************************************************************************)
(* C34                                                                     *)
(***************************************************************************)
\* C34: ADD SP,e leaves (SP + e) mod 2^16 in SP and LD HL,SP+e leaves it in
\* HL, for every signed offset byte e; both clear Z and N, set H exactly when
\* (SP & 0xF) + (e & 0xF) > 0xF and C exactly when (SP & 0xFF) + e, with e as
\* an unsigned byte, exceeds 0xFF.
C34_OffsetSpFlags ==
    call.family = "stack_pointer" /\ call.opcode # -1 =>
        LET sp == call.entry.sp
            e == call.operand
            signed == IF e >= 128 THEN e - 256 ELSE e
            result == (sp + signed) % 65536
        IN  /\ call.opcode = \hE8 => cpu.sp = result
            /\ call.opcode = \hF8 => cpu.h * 256 + cpu.l = result /\ cpu.sp = sp
            /\ FlagsAre(cpu, FALSE, FALSE, (sp % 16) + (e % 16) > \hF, (sp % 256) + e > \hFF)

\* ADD SP,-1 from SP = 0x0000 with all flags set: SP = 0xFFFF, every flag clear
C34_Witness ==
    /\ call.opcode = \hE8
    /\ call.operand = \hFF
    /\ call.entry.sp = \h0000
    /\ call.entry.flag_register = \hF0
    /\ cpu.sp = \hFFFF
    /\ cpu.flag_register = \h00

\* LD HL,SP+1 from SP = 0xFFFF: HL = 0x0000 with H and C set, SP as it was
C34_WitnessLoad ==
    /\ call.opcode = \hF8
    /\ call.operand = \h01
    /\ call.entry.sp = \hFFFF
    /\ cpu.h = 0
    /\ cpu.l = 0
    /\ cpu.sp = \hFFFF
    /\ cpu.flag_register = \h30

(***************************************************************************)
(* C35                                                                     *)
(***************************************************************************)
CallOpcodes == {\hC4, \hCC, \hCD, \hD4, \hDC}
RetOpcodes == {\hC0, \hC8, \hC9, \hD0, \hD8}
RstOpcodes == {\hC7, \hEF}

\* whether the CALL or RET in c goes through: it is unconditional or its
\* condition held against the flags at its entry
GoesThrough(c) ==
    LET zero == get_bit(c.entry.cpu.flag_register, 7)
        carry == get_bit(c.entry.cpu.flag_register, 4)
    IN  CASE c.opcode \in {\hCD, \hC9} -> TRUE
          [] c.opcode \in {\hC4, \hC0} -> ~zero
          [] c.opcode \in {\hCC, \hC8} -> zero
          [] c.opcode \in {\hD4, \hD0} -> ~carry
          [] c.opcode \in {\hDC, \hD8} -> carry

\* the last tick pushed word: SP went down by 2 and the word lies at SP, low
\* byte first
Pushed(word) ==
    /\ cpu.sp = call.entry.cpu.sp - 2
    /\ mmu.high_ram[cpu.sp] = word % 256
    /\ mmu.high_ram[cpu.sp + 1] = word \div 256

\* the last tick left the stack pointer and the stack as they were
StackUntouched ==
    /\ cpu.sp = call.entry.cpu.sp
    /\ mmu.high_ram = call.entry.high_ram

\* CALL, RET and RST against the state at their entry
CallRetRst ==
    LET pc == call.entry.cpu.pc
    IN  /\ call.opcode \in CallOpcodes =>
              IF GoesThrough(call)
              THEN Pushed(pc + 3) /\ cpu.pc = call.operand
              ELSE StackUntouched /\ cpu.pc = pc + 3
        /\ call.opcode \in RetOpcodes =>
              IF GoesThrough(call)
              THEN /\ cpu.pc = WordAt(call.entry.high_ram, call.entry.cpu.sp)
                   /\ cpu.sp = call.entry.cpu.sp + 2
                   /\ mmu.high_ram = call.entry.high_ram
              ELSE StackUntouched /\ cpu.pc = pc + 1
        /\ call.opcode \in RstOpcodes =>
              Pushed(pc + 1) /\ cpu.pc = (IF call.opcode = \hEF THEN \h28 ELSE \h00)

\* a CALL that goes through, then a RET that goes through
CallThenRet ==
    /\ call.opcode \in CallOpcodes
    /\ GoesThrough(call)
    /\ call'.opcode \in RetOpcodes
    /\ GoesThrough(call')

\* C35: a CALL whose condition holds (or that has none) lowers SP by 2, stores
\* the address of the instruction after the 3-byte CALL at SP, low byte first,
\* and sets PC to nn; otherwise it leaves SP and memory and PC is at the next
\* instruction.  A RET whose condition holds loads PC from the word at SP and
\* raises SP by 2; otherwise it changes neither.  A CALL followed by a RET
\* resumes after the CALL with SP restored, and RST n pushes the address of
\* the next instruction and sets PC to n.
C35_CallRetRst ==
    /\ [](call.family = "branches" => CallRetRst)
    /\ [][CallThenRet => cpu'.pc = call.entry.cpu.pc + 3 /\ cpu'.sp = call.entry.cpu.sp]_vars

\* CALL Z,0x0150 at 0x0004 went through, then RET NC went through: PC = 0x0007,
\* SP = 0xFFFE
C35_Witness ==
    /\ call.opcode = \hD0
    /\ call.entry.cpu.pc = \h0150
    /\ call.entry.cpu.sp = StackTop - 2
    /\ WordAt(call.entry.high_ram, StackTop - 2) = \h0007
    /\ cpu.pc = \h0007
    /\ cpu.sp = StackTop

\* RST 0x28 at 0x0004 with SP = 0xFFFE: SP = 0xFFFC, 0x05 and 0x00 at
\* 0xFFFC and 0xFFFD, PC = 0x0028
C35_WitnessRst ==
    /\ call.opcode = \hEF
    /\ call.entry.cpu.pc = \h0004
    /\ call.entry.cpu.sp = StackTop
    /\ cpu.sp = \hFFFC
    /\ mmu.high_ram[\hFFFC] = \h05
    /\ mmu.high_ram[\hFFFD] = \h00
    /\ cpu.pc = \h0028

====
